---- MODULE Spec2Model ----
(***************************************************************************)
(* A model of FrameFlow: the agent orchestrator (core/agent.py), the key   *)
(* moment detector, the story analyzer, the character consistency manager  *)
(* and the input validation, as state machines over small input sets.      *)
(*                                                                         *)
(* Text is modelled line by line: a screenplay text is a sequence of line  *)
(* kinds, a name or a prompt is a sequence of one-character strings.       *)
(* Scores are kept in hundredths (2.5 is 250), so that the weights of      *)
(* moment_detector.py stay integers.                                       *)
(***************************************************************************)
EXTENDS Integers, Sequences, FiniteSets, TLC

VARIABLES
    \* -- KeyMomentDetector.identify_key_moments, applied to one input
    screenplay_text, num_frames, moments, mpc,
    \* -- CharacterConsistencyManager: the in-memory map, the JSON file at
    \*    storage_path, and the last call with what it returned
    character_embeddings, storage_file, manager_call,
    \* -- the API keys of the environment, the FrameFlowAgent object, the
    \*    last call made on it (or on a handler of app.py) with its outcome,
    \*    the number of screenplays asked for, whether one was returned in
    \*    this session, and the prompt typed into the form
    env_keys, agent, agent_call, screenplay_calls, screenplay_ready, story_prompt,
    \* -- one batch call of a client (asyncio.gather over one task for each
    \*    input), and the last call of a function that keeps no state
    batch, fn_call

momentVars == <<screenplay_text, num_frames, moments, mpc>>
managerVars == <<character_embeddings, storage_file, manager_call>>
agentVars == <<env_keys, agent, agent_call, screenplay_calls, screenplay_ready,
               story_prompt>>
libraryVars == <<batch, fn_call>>
vars == <<screenplay_text, num_frames, moments, mpc,
          character_embeddings, storage_file, manager_call,
          env_keys, agent, agent_call, screenplay_calls, screenplay_ready,
          story_prompt, batch, fn_call>>

None == "None"

(***************************************************************************)
(* Bounds of the model.                                                    *)
(***************************************************************************)
MaxLines == 5
MaxFrames == 3
MaxFrameCount == 1
MaxScreenplays == 1
MaxPromptLen == 11
MaxBatch == 2
MaxSceneList == 2
MaxSceneLines == 3
MaxNumScenes == 12
MaxTextLen == 5
MaxSceneCount == 9

Min(a, b) == IF a <= b THEN a ELSE b
Max(a, b) == IF a >= b THEN a ELSE b

\* The element of a set of one element.  {e : x \in {v}} is e with x standing
\* for the value of v.
TheOne(S) == CHOOSE x \in S : TRUE

(***************************************************************************)
(* Screenplay text, line by line.  A line is one of:                       *)
(*   "H"      a numbered scene heading ("3. INT. OFFICE - DAY")            *)
(*   "fight"  an action line containing the keyword "fight"                *)
(*   "laughs" an action line containing the keyword "laughs"               *)
(*   "long"   an action line of more than 500 characters, no keyword       *)
(*   "ALEX", "SAM"  character cues (all capitals, one word)                *)
(* The formatted text of a generated screenplay holds, besides "H":        *)
(*   "plain"  a short line without a keyword (the by-line, a basic action  *)
(*            line, a line of basic dialogue)                              *)
(*   "TITLE"  the title line ("UNTITLED DRAMA PROJECT": all capitals,      *)
(*            three words)                                                 *)
(*   "MA C", "AL M", "BO"  the cues of the characters Ma C, Al M and Bo    *)
(***************************************************************************)
LineKinds == {"H", "fight", "laughs", "long", "ALEX", "SAM"}
CueLines == {"ALEX", "SAM", "TITLE", "MA C", "AL M", "BO"}

\* The characters of a cue line, as _extract_characters returns them.
CueText(l) ==
    CASE l = "MA C" -> <<"M", "A", " ", "C">>
      [] l = "AL M" -> <<"A", "L", " ", "M">>
      [] l = "BO" -> <<"B", "O">>
      [] l = "ALEX" -> <<"A", "L", "E", "X">>
      [] l = "SAM" -> <<"S", "A", "M">>
      [] OTHER -> <<"T", "I", "T", "L", "E">>

\* The cue line that spells the upper-case name.
CueLine(name) == CHOOSE l \in CueLines : CueText(l) = name

Texts == UNION {[1..n -> LineKinds] : n \in 0..MaxLines}

\* The keywords a line contains (content.lower() is searched for each keyword).
LineKeywords(l) ==
    CASE l = "fight" -> {"fight"}
      [] l = "laughs" -> {"laughs"}
      [] OTHER -> {}

\* Characters of a line, its newline included.
LineLength(l) ==
    CASE l = "long" -> 600
      [] l = "fight" -> 30
      [] l = "laughs" -> 30
      [] OTHER -> 5

\* _load_visual_keywords, "action" and "emotional", weights in hundredths.
ActionWeights ==
    [k \in {"fight", "chase", "explosion", "crash", "runs", "enters", "reveals",
            "discovers", "opens", "looks", "watches", "fire", "blood", "kiss"} |->
        CASE k = "fight" -> 300
          [] k \in {"chase", "explosion"} -> 250
          [] k \in {"crash", "reveals", "discovers", "fire", "blood", "kiss"} -> 200
          [] k \in {"runs", "opens"} -> 150
          [] OTHER -> 100]

EmotionalWeights ==
    [k \in {"tears", "screams", "laughs", "cries", "shouts", "whispers",
            "smiles", "frowns"} |->
        CASE k \in {"tears", "screams", "cries"} -> 150
          [] k \in {"laughs", "shouts", "whispers"} -> 100
          [] OTHER -> 50]

RECURSIVE SumOver(_, _, _)
\* The sum of (w[k] * num) \div den over the keywords k of S that w weighs.
SumOver(S, w, pct) ==
    IF S = {} THEN 0
    ELSE LET k == CHOOSE x \in S : TRUE
         IN (IF k \in DOMAIN w THEN (w[k] * pct) \div 100 ELSE 0)
            + SumOver(S \ {k}, w, pct)

RECURSIVE ContentKeywords(_)
ContentKeywords(content) ==
    IF content = <<>> THEN {}
    ELSE LineKeywords(Head(content)) \cup ContentKeywords(Tail(content))

RECURSIVE ContentLength(_)
ContentLength(content) ==
    IF content = <<>> THEN 0
    ELSE LineLength(Head(content)) + ContentLength(Tail(content))

RECURSIVE SeqContains(_, _)
SeqContains(s, x) ==
    IF s = <<>> THEN FALSE ELSE Head(s) = x \/ SeqContains(Tail(s), x)

RECURSIVE ExtractCharactersFrom(_, _)
ExtractCharactersFrom(content, characters) ==
    IF content = <<>> THEN characters
    ELSE LET l == Head(content)
         IN ExtractCharactersFrom(Tail(content),
                IF l \in CueLines /\ ~SeqContains(characters, l)
                THEN Append(characters, l) ELSE characters)

\* _extract_characters: the distinct cue lines of the content, in order.
ExtractCharacters(content) == ExtractCharactersFrom(content, <<>>)

RECURSIVE SplitScenes(_, _, _)
\* re.split on the heading pattern: the lines before the first heading are
\* dropped, each heading opens a scene whose content runs to the next one.
SplitScenes(text, scenes, open) ==
    IF text = <<>> THEN scenes
    ELSE LET l == Head(text)
         IN IF l = "H"
            THEN SplitScenes(Tail(text), Append(scenes, <<>>), TRUE)
            ELSE IF open
                 THEN SplitScenes(Tail(text),
                        [scenes EXCEPT ![Len(scenes)] = Append(@, l)], TRUE)
                 ELSE SplitScenes(Tail(text), scenes, FALSE)

\* _parse_scenes: scene_number counts the headings from 1.
ParseScenes(text) ==
    LET contents == SplitScenes(text, <<>>, FALSE)
    IN [i \in 1..Len(contents) |->
          [scene_number |-> i,
           content |-> contents[i],
           characters |-> ExtractCharacters(contents[i]),
           score |-> 0]]

\* Mutant: every bonus whose condition holds is added.
PositionBonus_Cumulative(scene_num, total_scenes) ==
    (IF scene_num = 1 THEN 200 ELSE 0)
    + (IF scene_num = total_scenes THEN 250 ELSE 0)
    + (IF 4 * scene_num <= total_scenes THEN 100 ELSE 0)
    + (IF 4 * scene_num >= 3 * total_scenes THEN 150 ELSE 0)

\* The positional bonus of _score_scenes (an if/elif chain).
PositionBonus(scene_num, total_scenes) ==
    IF scene_num = 1 THEN 200
    ELSE IF scene_num = total_scenes THEN 250
    ELSE IF 4 * scene_num <= total_scenes THEN 100
    ELSE IF 4 * scene_num >= 3 * total_scenes THEN 150
    ELSE 0

SceneScore(scene, total_scenes) ==
    SumOver(ContentKeywords(scene.content), ActionWeights, 100)
    + SumOver(ContentKeywords(scene.content), EmotionalWeights, 70)
    + (IF Len(scene.characters) >= 2 THEN 150 ELSE 0)
    + PositionBonus(scene.scene_number, total_scenes)
    + (IF ContentLength(scene.content) > 500 THEN 100 ELSE 0)

\* _score_scenes
ScoreScenes(scenes) ==
    [i \in 1..Len(scenes) |->
        [scenes[i] EXCEPT !.score = SceneScore(scenes[i], Len(scenes))]]

\* Python's s[:n]: the first n items, or all but the last -n when n < 0.
Slice(s, n) ==
    IF n >= 0 THEN SubSeq(s, 1, Min(n, Len(s)))
    ELSE SubSeq(s, 1, Max(0, Len(s) + n))

RECURSIVE InsertByScoreDesc_Unstable(_, _)
\* Mutant: x goes before the items of equal score (a sort that is not stable).
InsertByScoreDesc_Unstable(sorted, x) ==
    IF sorted = <<>> THEN <<x>>
    ELSE IF Head(sorted).score > x.score
         THEN <<Head(sorted)>> \o InsertByScoreDesc_Unstable(Tail(sorted), x)
         ELSE <<x>> \o sorted

RECURSIVE InsertByScoreDesc(_, _)
\* x goes after every item whose score is at least its own: sorted(...,
\* reverse=True) is stable, items of equal score keep their order.
InsertByScoreDesc(sorted, x) ==
    IF sorted = <<>> THEN <<x>>
    ELSE IF Head(sorted).score >= x.score
         THEN <<Head(sorted)>> \o InsertByScoreDesc(Tail(sorted), x)
         ELSE <<x>> \o sorted

RECURSIVE SortedByScoreDescFrom(_, _)
SortedByScoreDescFrom(s, acc) ==
    IF s = <<>> THEN acc
    ELSE SortedByScoreDescFrom(Tail(s), InsertByScoreDesc(acc, Head(s)))

\* sorted(scored_scenes, key=score, reverse=True)
SortedByScoreDesc(s) == SortedByScoreDescFrom(s, <<>>)

RECURSIVE InsertBySceneNumber(_, _)
InsertBySceneNumber(sorted, x) ==
    IF sorted = <<>> THEN <<x>>
    ELSE IF Head(sorted).scene_number <= x.scene_number
         THEN <<Head(sorted)>> \o InsertBySceneNumber(Tail(sorted), x)
         ELSE <<x>> \o sorted

RECURSIVE SortedBySceneNumberFrom(_, _)
SortedBySceneNumberFrom(s, acc) ==
    IF s = <<>> THEN acc
    ELSE SortedBySceneNumberFrom(Tail(s), InsertBySceneNumber(acc, Head(s)))

\* Mutant: the selection is left in score order.
SortedBySceneNumber_Omitted(s) == s

\* sorted(selected_scenes, key=scene_number)
SortedBySceneNumber(s) == SortedBySceneNumberFrom(s, <<>>)

\* selected_scenes of identify_key_moments: the top n by score.
SelectTop(scored_scenes, n) == Slice(SortedByScoreDesc(scored_scenes), n)

RECURSIVE ActionLinesOf(_, _)
\* The loop of _extract_description: the lines that are not empty, up to the
\* first character cue and three at most.
ActionLinesOf(content, action_lines) ==
    IF content = <<>> \/ Len(action_lines) >= 3 THEN action_lines
    ELSE LET l == Head(content)
         IN IF l = " " THEN ActionLinesOf(Tail(content), action_lines)
            ELSE IF l \in CueLines THEN action_lines
            ELSE ActionLinesOf(Tail(content), Append(action_lines, l))

\* _extract_description(content): the action lines, or "Scene action" when
\* there is none (a description is cut at 200 characters, which leaves its
\* lines what they are).
ExtractDescription(content) ==
    LET action_lines == ActionLinesOf(content, <<>>)
    IN IF action_lines = <<>> THEN [placeholder |-> "Scene action"]
       ELSE [lines |-> action_lines]

\* The keywords in the description of a moment.
DescriptionKeywords(description) ==
    IF "lines" \in DOMAIN description THEN ContentKeywords(description.lines)
    ELSE {}

\* suggest_camera_angles(moment)
SuggestCameraAngles(moment) ==
    LET words == DescriptionKeywords(moment.description)
        num_characters == Len(moment.characters)
    IN IF words \cap {"fight", "chase", "runs", "explosion"} # {} THEN "Wide Shot"
       ELSE IF words \cap {"tears", "whispers", "kiss", "cries"} # {} THEN "Close-Up"
       ELSE IF words \cap {"discovers", "reveals", "realizes"} # {} THEN "Medium Shot"
       ELSE IF num_characters >= 2
       THEN (IF num_characters > 2 THEN "Medium Shot" ELSE "Over the Shoulder")
       ELSE "Medium Shot"

\* identify_key_moments
IdentifyKeyMoments(text, n) ==
    LET scored_scenes == ScoreScenes(ParseScenes(text))
    IN TheOne({[idx \in 1..Len(selected_scenes) |->
                  [frame_number |-> idx,
                   scene_number |-> selected_scenes[idx].scene_number,
                   description |-> ExtractDescription(selected_scenes[idx].content),
                   characters |-> selected_scenes[idx].characters,
                   importance |-> selected_scenes[idx].score]] :
                 selected_scenes \in {SortedBySceneNumber(SelectTop(scored_scenes, n))}})


(***************************************************************************)
(* CharacterConsistencyManager (integrations/nebius.py).                   *)
(* A name is a sequence of characters; a dict is a function, the empty     *)
(* dict the empty function; an Optional argument is [some |-> FALSE] or    *)
(* [some |-> TRUE, value |-> v].                                           *)
(***************************************************************************)
EmptyDict == <<>>
NoArg == [some |-> FALSE]
Some(v) == [some |-> TRUE, value |-> v]

\* The letters str.lower() and str.upper() change.
Capitals == 
    <<"A", "B", "C", "D", "E", "F", "G", "H", "I", "J", "K", "L", "M",
      "N", "O", "P", "Q", "R", "S", "T", "U", "V", "W", "X", "Y", "Z">>
Smalls == 
    <<"a", "b", "c", "d", "e", "f", "g", "h", "i", "j", "k", "l", "m",
      "n", "o", "p", "q", "r", "s", "t", "u", "v", "w", "x", "y", "z">>
ToLower == [c \in {Capitals[i] : i \in 1..26} |->
               Smalls[CHOOSE i \in 1..26 : Capitals[i] = c]]
ToUpper == [c \in {Smalls[i] : i \in 1..26} |->
               Capitals[CHOOSE i \in 1..26 : Smalls[i] = c]]

\* str.lower() and str.upper() on one character.
LowerChar(c) == IF c \in DOMAIN ToLower THEN ToLower[c] ELSE c
UpperChar(c) == IF c \in DOMAIN ToUpper THEN ToUpper[c] ELSE c

Lower(str) == [i \in 1..Len(str) |-> LowerChar(str[i])]
Upper(str) == [i \in 1..Len(str) |-> UpperChar(str[i])]
Replace(str, old, new) == [i \in 1..Len(str) |-> IF str[i] = old THEN new ELSE str[i]]

\* character_id = character_name.lower().replace(' ', '_')
CharacterId(character_name) == Replace(Lower(character_name), " ", "_")

\* "Al M" and "al_m" (one id), and "Bo".
CharacterNames ==
    {<<"A", "l", " ", "M">>, <<"a", "l", "_", "m">>, <<"B", "o">>}
VisualDescriptions == {"Tall, dark hair", "Short, red hair"}
Embeddings == {<<1, 0>>, <<1, 1>>}
Metadatas == {NoArg, Some(EmptyDict), Some([age |-> 35])}

\* What NebiusClient.create_embedding does with a text: the API's vector, or
\* an HTTP error raised.
EmbeddingOutcomes == Embeddings \cup {<<"raise">>}

\* json.dump of one record: None is written as null.
JsonRecord(data) == [data EXCEPT !.last_updated = "null"]
\* json.load of one record.
PyRecord(json) == [json EXCEPT !.last_updated = None]

\* save_data of _save_embeddings: every record of the map.
JsonDump(embeddings) == [id \in DOMAIN embeddings |-> JsonRecord(embeddings[id])]
JsonLoad(data) == [id \in DOMAIN data |-> PyRecord(data[id])]

NoFile == [state |-> "absent"]
WrittenFile(data) == [state |-> "written", data |-> data]

\* The record store_character builds.
NewRecord(character_name, visual_description, embedding, metadata) ==
    [name |-> character_name,
     visual_description |-> visual_description,
     embedding |-> embedding,
     metadata |-> IF metadata.some /\ metadata.value # EmptyDict
                  THEN metadata.value ELSE EmptyDict,
     frame_count |-> 0,
     last_updated |-> None]

\* d[k] = v on a dict
DictSet(d, k, v) == [x \in DOMAIN d \cup {k} |-> IF x = k THEN v ELSE d[x]]

\* Mutant: the file is written before the new record is put into the map.
SavedAfterStore_Stale(old, new) == WrittenFile(JsonDump(old))

\* _save_embeddings as store_character calls it: the whole map, overwritten.
SavedAfterStore(old, new) == WrittenFile(JsonDump(new))

RECURSIVE DotProduct(_, _)
\* np.dot of two vectors of one length.
DotProduct(vec1, vec2) ==
    IF vec1 = <<>> THEN 0
    ELSE Head(vec1) * Head(vec2) + DotProduct(Tail(vec1), Tail(vec2))

\* Mutant: the dot product is not divided by the norms.
CosineSimilarity_Unnormalised(embedding1, embedding2) ==
    DotProduct(embedding1, embedding2) * 1000

RECURSIVE FloorSqrt(_, _, _)
\* The square root of n cut to an integer, searched between lo and hi.
FloorSqrt(n, lo, hi) ==
    IF lo >= hi THEN lo
    ELSE LET mid == (lo + hi + 1) \div 2
         IN IF mid * mid <= n THEN FloorSqrt(n, mid, hi)
            ELSE FloorSqrt(n, lo, mid - 1)

\* NebiusClient.cosine_similarity, a float written in thousandths and cut
\* toward zero: 0.0 when a norm is 0, else dot_product / (norm1 * norm2).
\* The norms are the square roots of the sums of squares, so the quotient is
\* the signed square root of dot_product^2 / (norm1^2 * norm2^2).
CosineSimilarity(embedding1, embedding2) ==
    LET dot_product == DotProduct(embedding1, embedding2)
        norm1_squared == DotProduct(embedding1, embedding1)
        norm2_squared == DotProduct(embedding2, embedding2)
        squared == (dot_product * dot_product * 1000000)
                      \div (norm1_squared * norm2_squared)
        root == FloorSqrt(squared, 0, 1000)
    IN IF norm1_squared = 0 \/ norm2_squared = 0 THEN 0
       ELSE IF dot_product >= 0 THEN root ELSE 0 - root

\* threshold: float = 0.85, in thousandths.
DefaultThreshold == 850

\* What create_embedding answers for a new description: a vector at 45
\* degrees to <<1, 0>>, one orthogonal to it, or an HTTP error raised.
NewEmbeddingOutcomes == {<<1, 1>>, <<0, 1>>, <<"raise">>}

InitManager ==
    /\ character_embeddings = EmptyDict
    /\ storage_file = NoFile
    /\ manager_call = [op |-> "init"]

\* store_character(character_name, visual_description, metadata)
store_character(character_name, visual_description, metadata) ==
    \E embedding \in EmbeddingOutcomes :
       LET character_id == CharacterId(character_name)
           stored == DictSet(character_embeddings, character_id,
                        NewRecord(character_name, visual_description,
                                  embedding, metadata))
       IN IF embedding = <<"raise">>
          THEN /\ manager_call' = [op |-> "store_character raised",
                                   character_name |-> character_name]
               /\ UNCHANGED <<character_embeddings, storage_file>>
          ELSE /\ character_embeddings' = stored
               /\ storage_file' = SavedAfterStore(character_embeddings, stored)
               /\ manager_call' = [op |-> "store_character",
                      character_name |-> character_name,
                      visual_description |-> visual_description,
                      metadata |-> metadata,
                      value |-> character_id]

\* Mutant: the description is returned and the usage count left as it was.
get_character_description_Uncounted(character_name, context) ==
    LET character_id == CharacterId(character_name)
    IN IF character_id \notin DOMAIN character_embeddings
       THEN /\ manager_call' = [op |-> "get_character_description raised",
                                character_name |-> character_name]
            /\ UNCHANGED <<character_embeddings, storage_file>>
       ELSE /\ manager_call' = [op |-> "get_character_description",
                                character_name |-> character_name,
                                value |-> character_embeddings[character_id].visual_description]
            /\ UNCHANGED <<character_embeddings, storage_file>>

\* get_character_description(character_name, context)
get_character_description(character_name, context) ==
    LET character_id == CharacterId(character_name)
    IN IF character_id \notin DOMAIN character_embeddings
       THEN /\ manager_call' = [op |-> "get_character_description raised",
                                character_name |-> character_name]
            /\ UNCHANGED <<character_embeddings, storage_file>>
       ELSE /\ character_embeddings[character_id].frame_count < MaxFrameCount
            /\ character_embeddings' =
                  [character_embeddings EXCEPT ![character_id].frame_count = @ + 1]
            /\ manager_call' = [op |-> "get_character_description",
                                character_name |-> character_name,
                                value |-> character_embeddings[character_id].visual_description]
            /\ UNCHANGED storage_file

\* Mutant: the similarity is compared with 0.85 whatever threshold is given.
validate_consistency_DefaultOnly(character_name, new_embedding, threshold) ==
    LET character_id == CharacterId(character_name)
        similarity == CosineSimilarity(character_embeddings[character_id].embedding,
                                       new_embedding)
    IN /\ UNCHANGED <<character_embeddings, storage_file>>
       /\ manager_call' =
            IF character_id \notin DOMAIN character_embeddings
            THEN [op |-> "validate_consistency", character_name |-> character_name,
                  threshold |-> threshold, embedding_called |-> FALSE,
                  value |-> <<FALSE, 0>>]
            ELSE IF new_embedding = <<"raise">>
            THEN [op |-> "validate_consistency raised",
                  character_name |-> character_name, embedding_called |-> TRUE]
            ELSE [op |-> "validate_consistency", character_name |-> character_name,
                  threshold |-> threshold, embedding_called |-> TRUE,
                  new_embedding |-> new_embedding,
                  value |-> <<similarity >= DefaultThreshold, similarity>>]

\* validate_consistency(character_name, new_description, threshold);
\* new_embedding is what create_embedding answers for new_description when
\* it is called, <<"raise">> for an HTTP error.
validate_consistency(character_name, new_embedding, threshold) ==
    LET character_id == CharacterId(character_name)
        stored_embedding == character_embeddings[character_id].embedding
        similarity == CosineSimilarity(stored_embedding, new_embedding)
        limit == IF threshold.some THEN threshold.value ELSE DefaultThreshold
    IN /\ UNCHANGED <<character_embeddings, storage_file>>
       /\ manager_call' =
            IF character_id \notin DOMAIN character_embeddings
            THEN [op |-> "validate_consistency", character_name |-> character_name,
                  threshold |-> threshold, embedding_called |-> FALSE,
                  value |-> <<FALSE, 0>>]
            ELSE IF new_embedding = <<"raise">>
            THEN [op |-> "validate_consistency raised",
                  character_name |-> character_name, embedding_called |-> TRUE]
            ELSE [op |-> "validate_consistency", character_name |-> character_name,
                  threshold |-> threshold, embedding_called |-> TRUE,
                  new_embedding |-> new_embedding,
                  value |-> <<similarity >= limit, similarity>>]

\* load_embeddings
load_embeddings ==
    /\ IF storage_file.state = "absent"
       THEN UNCHANGED character_embeddings
       ELSE character_embeddings' = JsonLoad(storage_file.data)
    /\ manager_call' = [op |-> "load_embeddings"]
    /\ UNCHANGED storage_file

\* CharacterConsistencyManager.__init__: a new manager, its map empty; the
\* file of an earlier manager stays on disk.
new_manager ==
    /\ character_embeddings' = EmptyDict
    /\ manager_call' = [op |-> "init"]
    /\ UNCHANGED storage_file

(***************************************************************************)
(* FrameFlowAgent (core/agent.py) and the modules it drives.               *)
(* An exception is the record Raised, a normal return Returned(value).     *)
(***************************************************************************)
Raised == [raised |-> TRUE]
Returned(v) == [raised |-> FALSE, value |-> v]

ApiKeys == {"SAMBANOVA_API_KEY", "HYPERBOLIC_API_KEY", "NEBIUS_API_KEY"}

\* The constructors raise ValueError when no key is in the environment.
SambaNovaClient(env) ==
    IF "SAMBANOVA_API_KEY" \in env THEN Returned("SambaNovaClient") ELSE Raised
HyperbolicClient(env) ==
    IF "HYPERBOLIC_API_KEY" \in env THEN Returned("HyperbolicClient") ELSE Raised
NebiusClient(env) ==
    IF "NEBIUS_API_KEY" \in env THEN Returned("NebiusClient") ELSE Raised

\* FrameFlowAgent.__init__
NewAgent ==
    [character_store |-> EmptyDict,
     llm_client |-> None,
     image_client |-> None,
     embedding_client |-> None,
     story_analyzer |-> None,
     character_creator |-> None,
     scene_writer |-> None,
     moment_detector |-> None,
     prompt_generator |-> None,
     consistency_manager |-> None,
     clients_initialized |-> FALSE]

\* Mutant: a try block without its except clause.
TryExcept_Uncaught(r) ==
    [raised |-> r.raised, assigned |-> ~r.raised,
     value |-> IF r.raised THEN None ELSE r.value]

\* try: <attribute> = <constructor>()  except Exception as e: print(...)
\* The assignment happens only when the constructor returns; nothing is
\* raised out of the block.
TryExcept(r) ==
    [raised |-> FALSE, assigned |-> ~r.raised,
     value |-> IF r.raised THEN None ELSE r.value]

\* _initialize_clients on the agent a in the environment env: the agent
\* afterwards, and whether the call raised.
InitializeClientsOf(a, env) ==
    IF a.clients_initialized THEN [agent |-> a, raised |-> FALSE]
    ELSE LET llm == TryExcept(SambaNovaClient(env))
             a1 == IF llm.assigned THEN [a EXCEPT !.llm_client = llm.value] ELSE a
             img == TryExcept(HyperbolicClient(env))
             a2 == IF img.assigned THEN [a1 EXCEPT !.image_client = img.value] ELSE a1
             emb == TryExcept(NebiusClient(env))
             a3 == IF emb.assigned
                   THEN [a2 EXCEPT !.embedding_client = emb.value,
                                   !.consistency_manager = "CharacterConsistencyManager"]
                   ELSE a2
             a4 == [a3 EXCEPT !.story_analyzer = "StoryStructureAnalyzer",
                              !.character_creator = "CharacterProfileCreator",
                              !.scene_writer = "ScreenplaySceneWriter",
                              !.moment_detector = "KeyMomentDetector",
                              !.prompt_generator = "VisualPromptGenerator",
                              !.clients_initialized = TRUE]
         IN IF llm.raised THEN [agent |-> a, raised |-> TRUE]
            ELSE IF img.raised THEN [agent |-> a1, raised |-> TRUE]
            ELSE IF emb.raised THEN [agent |-> a2, raised |-> TRUE]
            ELSE [agent |-> a4, raised |-> FALSE]

(***************************************************************************)
(* StoryStructureAnalyzer (screenplay_generator/story_analyzer.py).        *)
(***************************************************************************)
ThreeActStructure ==
    <<"Act 1: Setup", "Act 2: Confrontation", "Act 3: Resolution">>
FiveActStructure ==
    <<"Act 1: Exposition", "Act 2: Rising Action", "Act 3: Climax",
      "Act 4: Falling Action", "Act 5: Denouement">>
HerosJourneyStructure ==
    <<"Ordinary World", "Call to Adventure", "Refusal of the Call",
      "Meeting the Mentor", "Crossing the Threshold", "Tests, Allies, Enemies",
      "Approach to Inmost Cave", "Ordeal", "Reward", "The Road Back",
      "Resurrection", "Return with Elixir">>

\* Mutant: a name that is not a key of act_structures gets no beat.
StructureFn_NoDefault(act_structure) ==
    CASE act_structure = "Three-Act" -> ThreeActStructure
      [] act_structure = "Five-Act" -> FiveActStructure
      [] act_structure = "Hero's Journey" -> HerosJourneyStructure
      [] OTHER -> <<>>

\* self.act_structures.get(act_structure, self._three_act_structure)()
StructureFn(act_structure) ==
    CASE act_structure = "Three-Act" -> ThreeActStructure
      [] act_structure = "Five-Act" -> FiveActStructure
      [] act_structure = "Hero's Journey" -> HerosJourneyStructure
      [] OTHER -> ThreeActStructure

\* _generate_basic_plot_points
GenerateBasicPlotPoints(act_structure) ==
    CASE act_structure = "Three-Act" ->
           <<"Opening", "Inciting Incident", "First Plot Point", "Midpoint",
             "Low Point", "Climax", "Resolution">>
      [] act_structure = "Five-Act" ->
           <<"Exposition", "Complication", "Climax", "Reversal", "Denouement">>
      [] OTHER ->
           <<"Call to Adventure", "Crossing Threshold", "Tests and Trials",
             "Ordeal", "Return Transformed">>

\* _infer_setting / _infer_tone, for the genres of the model
InferSetting(genre) ==
    IF genre = "Thriller" THEN "Contemporary urban environment"
    ELSE "Contemporary setting"
InferTone(genre) == IF genre = "Thriller" THEN "tense" ELSE "dramatic"

\* "Main Character", the protagonist _basic_analysis finds in a prompt that
\* holds none of its keywords (no prompt of the model holds one).
MainCharacter == <<"M", "a", " ", "C">>

\* _basic_analysis
BasicAnalysis(story_input) ==
    [protagonist |-> MainCharacter,
     antagonist |-> "Forces of opposition",
     setting |-> InferSetting(story_input.genre),
     key_plot_points |-> GenerateBasicPlotPoints(story_input.act_structure),
     tone |-> InferTone(story_input.genre)]

\* _parse_analysis of a backend text: what the regular expressions found.
\* The text of the model: a protagonist and two list items, no other field.
ParsedAnalyses ==
    {[protagonist |-> <<"B", "o">>, antagonist |-> "", setting |-> "",
      key_plot_points |-> <<"Plot point 1", "Plot point 2">>, tone |-> "dramatic"]}

\* analyze(story_input): the backend is called when there is one, and an
\* exception of that call is not caught.  response is Raised or
\* Returned(parsed analysis).
Analyze(llm_client, story_input, response) ==
    IF llm_client # None /\ response.raised THEN Raised
    ELSE LET analysis == IF llm_client # None THEN response.value
                         ELSE BasicAnalysis(story_input)
         IN Returned([protagonist |-> analysis.protagonist,
                      antagonist |-> analysis.antagonist,
                      setting |-> analysis.setting,
                      key_plot_points |-> analysis.key_plot_points,
                      tone |-> analysis.tone,
                      suggested_acts |-> StructureFn(story_input.act_structure),
                      genre |-> story_input.genre,
                      dialogue_style |-> story_input.dialogue_style])

\* Mutant: the plot point is counted within the act.
IdentifyKeyScenes_PurposeWithinAct(analysis, num_scenes) ==
    LET act_structure == analysis.suggested_acts
        plot_points == analysis.key_plot_points
        scenes_per_act == num_scenes \div Len(act_structure)
        scenes ==
          [k \in 1..(Len(act_structure) * scenes_per_act) |->
             LET act_idx == (k - 1) \div scenes_per_act
                 i == (k - 1) % scenes_per_act
                 plot_point_idx == i
             IN [scene_number |-> k,
                 act |-> act_idx + 1,
                 purpose |-> IF plot_point_idx < Len(plot_points)
                             THEN [plot_point |-> plot_points[plot_point_idx + 1]]
                             ELSE [develop |-> act_idx + 1],
                 setting |-> analysis.setting,
                 tone |-> analysis.tone]]
    IN Slice(scenes, num_scenes)

\* identify_key_scenes(analysis, num_scenes)
IdentifyKeyScenes(analysis, num_scenes) ==
    LET act_structure == analysis.suggested_acts
        plot_points == analysis.key_plot_points
        scenes_per_act == num_scenes \div Len(act_structure)
        scenes ==
          [k \in 1..(Len(act_structure) * scenes_per_act) |->
             LET act_idx == (k - 1) \div scenes_per_act
                 i == (k - 1) % scenes_per_act
                 plot_point_idx == act_idx * scenes_per_act + i
             IN [scene_number |-> k,
                 act |-> act_idx + 1,
                 purpose |-> IF plot_point_idx < Len(plot_points)
                             THEN [plot_point |-> plot_points[plot_point_idx + 1]]
                             ELSE [develop |-> act_idx + 1],
                 setting |-> analysis.setting,
                 tone |-> analysis.tone]]
    IN Slice(scenes, num_scenes)

(***************************************************************************)
(* CharacterProfileCreator (screenplay_generator/character_creator.py).    *)
(* A profile keeps name, role and visual_description; the age and the      *)
(* wording of a description, random choices, are left out.                 *)
(***************************************************************************)
IsAlpha(c) == c \notin {" ", "_"}

\* str.title(): a letter after a non-letter is upper-cased, any other lowered.
Title(str) ==
    [i \in 1..Len(str) |->
        IF i = 1 \/ ~IsAlpha(str[i - 1]) THEN UpperChar(str[i])
        ELSE LowerChar(str[i])]

\* str.split()[0], for a string that holds a word.
FirstWord(str) ==
    LET start == CHOOSE i \in 1..Len(str) :
                    str[i] # " " /\ \A k \in 1..(i - 1) : str[k] = " "
        stop == CHOOSE j \in start..Len(str) :
                    /\ \A k \in start..j : str[k] # " "
                    /\ j = Len(str) \/ str[j + 1] = " "
    IN SubSeq(str, start, stop)

AlexMorgan == <<"A", "l", " ", "M">>

\* The names _generate_name draws ("Al M", "Bo").
GeneratedNames == {<<"A", "l", " ", "M">>, <<"B", "o">>}

\* _generate_visual_description(genre, role): the clothing follows the genre.
GenerateVisualDescription(genre, role) ==
    IF genre = "Thriller"
    THEN "Tall, dark hair, sharp features, typically wears professional attire, often a leather jacket"
    ELSE "Tall, dark hair, sharp features, typically wears contemporary clothing"

CharacterProfile(name, role, visual_description) ==
    [name |-> name, role |-> role, visual_description |-> visual_description]

\* The protagonist's name in _generate_basic_characters: split()[0] raises
\* IndexError on a string without a word; a first word without a letter
\* gives the default name.
BasicProtagonistName(story_analysis) ==
    LET protagonist_name == story_analysis.protagonist
    IN IF \A i \in 1..Len(protagonist_name) : protagonist_name[i] = " "
       THEN Raised
       ELSE LET w == FirstWord(protagonist_name)
            IN Returned(IF \E i \in 1..Len(w) : IsAlpha(w[i])
                        THEN protagonist_name ELSE AlexMorgan)

\* _generate_basic_characters; names[k] is the k-th name _generate_name draws.
GenerateBasicCharacters(story_analysis, genre, num_characters, names) ==
    LET pn == BasicProtagonistName(story_analysis)
    IN IF pn.raised THEN Raised
       ELSE LET protagonist ==
                  CharacterProfile(Title(pn.value), "protagonist",
                      GenerateVisualDescription(genre, "protagonist"))
                first ==
                  IF story_analysis.antagonist # "" /\ num_characters > 1
                  THEN <<protagonist,
                         CharacterProfile(names[1], "antagonist",
                             GenerateVisualDescription(genre, "antagonist"))>>
                  ELSE <<protagonist>>
                missing == Max(0, num_characters - Len(first))
            IN Returned(first \o
                 [k \in 1..missing |->
                    CharacterProfile(names[Len(first) - 1 + k], "supporting",
                        GenerateVisualDescription(genre, "supporting"))])

\* _parse_character_response of a backend text: no section long enough, or
\* three sections with a name each.
ParsedCharacterLists ==
    {<<>>,
     <<CharacterProfile(<<"A", "l", " ", "M">>, "protagonist", "Tall, dark hair"),
       CharacterProfile(<<"B", "o">>, "antagonist", "Short, red hair"),
       CharacterProfile(<<"a", "l", "_", "m">>, "supporting", "")>>}

\* create_characters: the backend is called when there is one, and an
\* exception of that call is not caught.
CreateCharacters(llm_client, story_analysis, genre, num_characters, response, names) ==
    IF llm_client # None
    THEN IF response.raised THEN Raised ELSE Returned(response.value)
    ELSE GenerateBasicCharacters(story_analysis, genre, num_characters, names)

(***************************************************************************)
(* The two pipelines of FrameFlowAgent.                                    *)
(***************************************************************************)
NumCharacters == 3
NumScenes == 8
PagesPerScene == 2

Stages == {"Analyzing", "CharacterCreation", "SceneWriting"}

RECURSIVE StoreCharactersFrom(_, _, _, _)
\* The loop of _create_characters: each character goes into character_store
\* under its name and, when there is a consistency manager, into the manager;
\* an exception of store_character is swallowed (bare except).
\* st holds character_store, character_embeddings and storage_file.
StoreCharactersFrom(characters, consistency_manager, st, embedding) ==
    IF characters = <<>> THEN st
    ELSE LET char == Head(characters)
             kept == [st EXCEPT !.character_store = DictSet(@, char.name, char)]
             stored == DictSet(st.character_embeddings, CharacterId(char.name),
                          NewRecord(char.name, char.visual_description, embedding,
                                    Some([role |-> char.role])))
         IN StoreCharactersFrom(Tail(characters), consistency_manager,
                IF consistency_manager # None /\ embedding # <<"raise">>
                THEN [kept EXCEPT
                        !.character_embeddings = stored,
                        !.storage_file = SavedAfterStore(st.character_embeddings, stored)]
                ELSE kept,
                embedding)

\* Mutant: one page for each scene.
EstimatePageCount_OnePage(scenes) == Len(scenes)

\* _estimate_page_count
EstimatePageCount(scenes) == Len(scenes) * PagesPerScene

\* The speakers of _generate_basic_scene: the first two characters, their
\* names in capitals, when there are two.
BasicSceneDialogue(characters) ==
    IF Len(characters) >= 2
    THEN <<Upper(characters[1].name), Upper(characters[2].name)>>
    ELSE <<>>

\* _write_scenes: one scene for each outline of identify_key_scenes, written
\* by the backend when there is one (an exception of that call is not
\* caught; its answer holds no dialogue); without the backend, the basic
\* scene; without the modules, one scene without dialogue.
WriteScenes(a, story_analysis, characters, response) ==
    IF a.story_analyzer # None /\ a.scene_writer # None
    THEN LET scene_outlines == IdentifyKeyScenes(story_analysis, NumScenes)
         IN IF a.llm_client # None /\ response = "raise" /\ scene_outlines # <<>>
            THEN Raised
            ELSE Returned([i \in 1..Len(scene_outlines) |->
                            [scene_number |-> scene_outlines[i].scene_number,
                             dialogue |-> IF a.llm_client = None
                                          THEN BasicSceneDialogue(characters)
                                          ELSE <<>>]])
    ELSE Returned(<<[scene_number |-> 1, dialogue |-> <<>>]>>)

\* _analyze_story: the analyzer, or the fixed analysis when there is none.
AnalyzeStory(a, story_input, response) ==
    IF a.story_analyzer # None
    THEN Analyze(a.llm_client, story_input, response)
    ELSE Returned([protagonist |-> <<"A">>,
                   antagonist |-> "Forces of opposition",
                   setting |-> "Contemporary urban setting",
                   key_plot_points |-> <<"Inciting incident", "First turning point",
                       "Midpoint reversal", "Dark night of the soul", "Climax",
                       "Resolution">>,
                   suggested_acts |-> <<"Setup", "Confrontation", "Resolution">>])

\* What the text backend does in one generate_screenplay call: the parsed
\* answer of each stage's request, or an exception.
LLMResponses ==
    {[analysis |-> Raised, characters |-> Raised, scenes |-> "raise"]}
    \cup {[analysis |-> Returned(pa), characters |-> Raised, scenes |-> "raise"] :
            pa \in ParsedAnalyses}
    \cup {[analysis |-> Returned(pa), characters |-> Returned(cl), scenes |-> s] :
            pa \in ParsedAnalyses, cl \in ParsedCharacterLists, s \in {"ok", "raise"}}

\* generate_screenplay(story_input) on the agent a0 in the environment env,
\* the manager's map and file being st0: the agent and the manager
\* afterwards, and the ScreenplayOutput or the exception that ends the call.
GenerateScreenplayOf(a0, env, st0, story_input, llm, names, embedding) ==
    LET init == InitializeClientsOf(a0, env)
        a == init.agent
        unstored == [character_store |-> a.character_store,
                     character_embeddings |-> st0.character_embeddings,
                     storage_file |-> st0.storage_file]
        analysis == AnalyzeStory(a, story_input, llm.analysis)
        characters ==
            IF a.character_creator # None
            THEN CreateCharacters(a.llm_client, analysis.value, story_input.genre,
                                  NumCharacters, llm.characters, names)
            ELSE Returned(<<CharacterProfile(AlexMorgan, "protagonist",
                                "Tall, athletic build")>>)
        st == StoreCharactersFrom(characters.value, a.consistency_manager,
                                  unstored, embedding)
        scenes == WriteScenes(a, analysis.value, characters.value, llm.scenes)
    IN IF init.raised
       THEN [agent |-> a, st |-> unstored, raised |-> TRUE, stages |-> <<>>]
       ELSE IF analysis.raised
       THEN [agent |-> a, st |-> unstored, raised |-> TRUE,
             stages |-> <<"Analyzing">>]
       ELSE IF characters.raised
       THEN [agent |-> a, st |-> unstored, raised |-> TRUE,
             stages |-> <<"Analyzing", "CharacterCreation">>]
       ELSE IF scenes.raised
       THEN [agent |-> [a EXCEPT !.character_store = st.character_store],
             st |-> st, raised |-> TRUE,
             stages |-> <<"Analyzing", "CharacterCreation", "SceneWriting">>]
       ELSE [agent |-> [a EXCEPT !.character_store = st.character_store],
             st |-> st, raised |-> FALSE,
             stages |-> <<"Analyzing", "CharacterCreation", "SceneWriting">>,
             value |-> [metadata |-> [title |-> <<"Untitled", story_input.genre, "Project">>,
                                      genre |-> story_input.genre],
                        characters |-> characters.value,
                        scenes |-> scenes.value,
                        page_count |-> EstimatePageCount(scenes.value)]]

\* An empty text, a text of white space, a text without a scene heading, and
\* a text of two scenes.
ScreenplayTexts ==
    {<<>>, <<" ">>, <<"laughs">>, <<"H", "fight", "H", "ALEX", "laughs">>}

\* identify_key_moments(text, n) for the texts and the frame numbers of the
\* model, computed once.
DetectedMoments ==
    [text \in ScreenplayTexts |->
        [n \in 0..MaxFrames |-> IdentifyKeyMoments(text, n)]]

\* _identify_key_moments: the detector, or num_frames placeholder moments
\* when there is none.
IdentifyKeyMomentsOf(a, text, n) ==
    IF a.moment_detector # None
    THEN IF text \in DOMAIN DetectedMoments THEN DetectedMoments[text][n]
         ELSE IdentifyKeyMoments(text, n)
    ELSE [i \in 1..n |-> [scene_number |-> i,
                          description |-> [key_moment |-> i],
                          characters |-> <<>>]]

RECURSIVE FormattedSceneLines(_)
\* The scene loop of to_formatted_text, line by line: the heading, the action
\* and, for each line of dialogue, the cue and the line.
FormattedSceneLines(scenes) ==
    IF scenes = <<>> THEN <<>>
    ELSE <<"H", "plain">>
         \o [k \in 1..(2 * Len(Head(scenes).dialogue)) |->
               IF k % 2 = 1 THEN CueLine(Head(scenes).dialogue[(k + 1) \div 2])
               ELSE "plain"]
         \o FormattedSceneLines(Tail(scenes))

\* to_formatted_text of a generated screenplay, line by line: the title page,
\* the list of characters, the scenes.
FormattedTextLines(screenplay) ==
    <<"TITLE", "plain">>
    \o [k \in 1..Len(screenplay.characters) |-> "plain"]
    \o FormattedSceneLines(screenplay.scenes)

\* get_character_consistency(character_name): the visual description stored
\* under exactly that name, or None.
GetCharacterConsistency(a, character_name) ==
    IF character_name \in DOMAIN a.character_store
    THEN Some(a.character_store[character_name].visual_description)
    ELSE NoArg

\* f"character {name}"
GenericDescription(name) == [character |-> name]

\* char_data of _generate_storyboard_frame: for each name of the moment,
\* get_character_consistency(name) or the generic description (an empty
\* description is falsy).
CharData(a, moment) ==
    [k \in 1..Len(moment.characters) |->
        LET name == moment.characters[k]
            found == GetCharacterConsistency(a, CueText(name))
        IN [name |-> name,
            visual_description |-> IF found.some /\ found.value # ""
                                   THEN [text |-> found.value]
                                   ELSE GenericDescription(name)]]

\* _format_character_descriptions(character_names, character_data): for each
\* name the description of the first entry of that name, compared in
\* capitals (a cue line is in capitals), or the generic description.
FormatCharacterDescriptions(character_names, character_data) ==
    [k \in 1..Len(character_names) |->
        LET name == character_names[k]
            same == {j \in 1..Len(character_data) : character_data[j].name = name}
        IN IF same # {}
           THEN character_data[CHOOSE j \in same : \A i \in same : j <= i].visual_description
           ELSE GenericDescription(name)]

\* The visual prompt of a frame: the style and the descriptions of the
\* moment's characters, which the prompt generator puts in; without the
\* generator, the style and the moment's description only.
VisualPrompt(a, moment, visual_style) ==
    [visual_style |-> visual_style,
     characters |-> IF a.prompt_generator # None
                    THEN FormatCharacterDescriptions(moment.characters,
                                                     CharData(a, moment))
                    ELSE <<>>]

\* Mutant: the storyboard ends before the first frame whose image fails.
GenerateStoryboardOf_EndsAtFailedFrame(a0, env, text, n, visual_style, image_failures) ==
    LET init == InitializeClientsOf(a0, env)
        a == init.agent
    IN IF init.raised THEN [agent |-> a, raised |-> TRUE]
       ELSE [agent |-> a, raised |-> FALSE,
             value |-> [screenplay_title |-> "Generated Screenplay",
                        frames |-> TheOne({[i \in {k \in 1..Len(moment) : \A f \in image_failures : k < f} |->
                           [frame_number |-> i,
                            scene_reference |-> moment[i].scene_number,
                            description |-> moment[i].description,
                            camera_angle |-> IF a.moment_detector # None
                                             THEN SuggestCameraAngles(moment[i])
                                             ELSE "Medium Shot",
                            visual_prompt |-> VisualPrompt(a, moment[i], visual_style),
                            image_path |-> IF a.image_client # None /\ i \notin image_failures
                                           THEN Some(<<"frame", i>>) ELSE NoArg]] :
                              moment \in {IdentifyKeyMomentsOf(a, text, n)}}),
                        visual_style |-> visual_style]]

\* generate_storyboard(screenplay_text, num_frames, visual_style): one frame
\* for each key moment.  image_failures holds the frames whose image request
\* or image save raises; the exception is caught and image_path stays None.
GenerateStoryboardOf(a0, env, text, n, visual_style, image_failures) ==
    LET init == InitializeClientsOf(a0, env)
        a == init.agent
    IN IF init.raised THEN [agent |-> a, raised |-> TRUE]
       ELSE [agent |-> a, raised |-> FALSE,
             value |-> [screenplay_title |-> "Generated Screenplay",
                        frames |-> TheOne({[i \in 1..Len(moment) |->
                           [frame_number |-> i,
                            scene_reference |-> moment[i].scene_number,
                            description |-> moment[i].description,
                            camera_angle |-> IF a.moment_detector # None
                                             THEN SuggestCameraAngles(moment[i])
                                             ELSE "Medium Shot",
                            visual_prompt |-> VisualPrompt(a, moment[i], visual_style),
                            image_path |-> IF a.image_client # None /\ i \notin image_failures
                                           THEN Some(<<"frame", i>>) ELSE NoArg]] :
                              moment \in {IdentifyKeyMomentsOf(a, text, n)}}),
                        visual_style |-> visual_style]]

(***************************************************************************)
(* Input validation (core/schemas.py, core/error_handling.py) and the      *)
(* handlers of the web application (app.py).                               *)
(***************************************************************************)
MinLength == 10

\* Mutant: the text is taken as it is.
Strip_Nothing(s) == s

\* str.strip(): the string without its leading and trailing white space.
Strip(s) ==
    IF \A i \in 1..Len(s) : s[i] = " " THEN <<>>
    ELSE LET first == CHOOSE i \in 1..Len(s) :
                         s[i] # " " /\ \A k \in 1..(i - 1) : s[k] = " "
             last == CHOOSE j \in 1..Len(s) :
                         s[j] # " " /\ \A k \in (j + 1)..Len(s) : s[k] = " "
         IN SubSeq(s, first, last)

\* validate_story_input(prompt): None, or the ValidationError it raises.
validate_story_input(prompt) ==
    IF prompt = <<>> \/ Strip(prompt) = <<>>
    THEN [raised |-> TRUE, error |-> "Empty story prompt"]
    ELSE IF Len(Strip(prompt)) < MinLength
    THEN [raised |-> TRUE, error |-> "Prompt too short"]
    ELSE Returned(None)

\* StoryInput(prompt=..., ...): pydantic checks min_length on the string as
\* given and raises its ValidationError.
StoryInput(prompt, genre, dialogue_style, act_structure) ==
    IF Len(prompt) < MinLength THEN Raised
    ELSE Returned([prompt |-> prompt, genre |-> genre,
                   dialogue_style |-> dialogue_style,
                   act_structure |-> act_structure])

(***************************************************************************)
(* Inputs of the model.                                                    *)
(***************************************************************************)
Spaces(n) == [i \in 1..n |-> " "]
Letters(n) == [i \in 1..n |-> "x"]

\* A prompt is a run of letters with spaces before and after it, at most
\* MaxPromptLen characters in all.
PaddedPrompts ==
    {Spaces(a) \o Letters(b) \o Spaces(c) :
        a \in 0..MaxPromptLen, b \in 0..MaxPromptLen, c \in 0..MaxPromptLen}
Prompts == {p \in PaddedPrompts : Len(p) <= MaxPromptLen}

Genres == {"Thriller", "Musical"}
ActStructureNames == {"Three-Act", "Five-Act", "Hero's Journey", "Four-Act"}

\* The forms of the model: every act structure for a thriller, and one
\* story of a genre the modules have no entry for.
StoryForms ==
    {[genre |-> "Thriller", dialogue_style |-> "Realistic", act_structure |-> s] :
        s \in ActStructureNames}
    \cup {[genre |-> "Musical", dialogue_style |-> "Realistic",
           act_structure |-> "Three-Act"]}

StoryInputs ==
    {StoryInput(Letters(MinLength), f.genre, f.dialogue_style, f.act_structure).value :
        f \in StoryForms}

VisualStyles == {"Noir"}
\* What _generate_name draws in one call: two names, or one name twice.
NameDraws ==
    {d \in [1..(NumCharacters - 1) -> GeneratedNames] :
        d[NumCharacters - 1] = <<"B", "o">>}
NoDraw == [k \in 1..(NumCharacters - 1) |-> <<"B", "o">>]
NoResponse == [analysis |-> Raised, characters |-> Raised, scenes |-> "raise"]
AgentEmbeddingOutcomes == {<<1, 0>>, <<"raise">>}

\* The outcomes of the backends are free only where the call consults them.
Consulted(llm, names, embedding) ==
    LET a == InitializeClientsOf(agent, env_keys).agent
    IN /\ a.llm_client = None => llm = NoResponse
       /\ a.llm_client # None => names = NoDraw
       /\ a.consistency_manager = None => embedding = <<"raise">>

InitAgent ==
    /\ agent = NewAgent
    /\ agent_call = [op |-> "__init__"]
    /\ screenplay_calls = 0
    /\ screenplay_ready = FALSE

\* _initialize_clients()
initialize_clients ==
    LET init == InitializeClientsOf(agent, env_keys)
    IN /\ agent' = init.agent
       /\ agent_call' = [op |-> "_initialize_clients", raised |-> init.raised]
       /\ UNCHANGED <<env_keys, screenplay_calls, screenplay_ready, story_prompt>>
       /\ UNCHANGED <<character_embeddings, storage_file>>

\* FrameFlowAgent.generate_screenplay(story_input)
generate_screenplay(story_input, llm, names, embedding) ==
    LET r == GenerateScreenplayOf(agent, env_keys,
                 [character_embeddings |-> character_embeddings,
                  storage_file |-> storage_file],
                 story_input, llm, names, embedding)
    IN /\ agent' = r.agent
       /\ character_embeddings' = r.st.character_embeddings
       /\ storage_file' = r.st.storage_file
       /\ agent_call' =
            IF r.raised
            THEN [op |-> "generate_screenplay", story_input |-> story_input,
                  raised |-> TRUE, stages |-> r.stages]
            ELSE [op |-> "generate_screenplay", story_input |-> story_input,
                  raised |-> FALSE, stages |-> r.stages, value |-> r.value]
       /\ screenplay_ready' = (screenplay_ready \/ ~r.raised)
       /\ screenplay_calls' = screenplay_calls + 1
       /\ UNCHANGED <<env_keys, story_prompt>>

\* app.generate_screenplay(story_prompt, genre, style, act_structure)
app_generate_screenplay(prompt, genre, style, act_structure, llm, names, embedding) ==
    LET story_input == StoryInput(prompt, genre, style, act_structure)
        r == GenerateScreenplayOf(agent, env_keys,
                 [character_embeddings |-> character_embeddings,
                  storage_file |-> storage_file],
                 story_input.value, llm, names, embedding)
    IN /\ screenplay_calls' = screenplay_calls + 1
       /\ UNCHANGED <<env_keys, story_prompt>>
       /\ IF Strip(prompt) = <<>>
          THEN /\ agent_call' = [op |-> "app.generate_screenplay",
                                 story_prompt |-> prompt,
                                 status |-> "warning", stages |-> <<>>]
               /\ UNCHANGED <<agent, character_embeddings, storage_file,
                              screenplay_ready>>
          ELSE IF story_input.raised
          THEN /\ agent_call' = [op |-> "app.generate_screenplay",
                                 story_prompt |-> prompt,
                                 status |-> "error", stages |-> <<>>]
               /\ UNCHANGED <<agent, character_embeddings, storage_file,
                              screenplay_ready>>
          ELSE /\ agent' = r.agent
               /\ character_embeddings' = r.st.character_embeddings
               /\ storage_file' = r.st.storage_file
               /\ screenplay_ready' = (screenplay_ready \/ ~r.raised)
               /\ agent_call' =
                    IF r.raised
                    THEN [op |-> "app.generate_screenplay", story_prompt |-> prompt,
                          status |-> "error", stages |-> r.stages]
                    ELSE [op |-> "app.generate_screenplay", story_prompt |-> prompt,
                          status |-> "success", stages |-> r.stages,
                          value |-> r.value]

\* FrameFlowAgent.generate_storyboard(screenplay_text, num_frames, visual_style)
generate_storyboard(text, n, visual_style, image_failures) ==
    LET r == GenerateStoryboardOf(agent, env_keys, text, n, visual_style,
                                  image_failures)
    IN /\ agent' = r.agent
       /\ agent_call' =
            IF r.raised
            THEN [op |-> "generate_storyboard", screenplay_text |-> text,
                  num_frames |-> n, visual_style |-> visual_style,
                  image_failures |-> image_failures, raised |-> TRUE]
            ELSE [op |-> "generate_storyboard", screenplay_text |-> text,
                  num_frames |-> n, visual_style |-> visual_style,
                  image_failures |-> image_failures,
                  raised |-> FALSE, value |-> r.value]
       /\ UNCHANGED <<env_keys, screenplay_calls, screenplay_ready, story_prompt>>
       /\ UNCHANGED <<character_embeddings, storage_file>>

\* app.generate_storyboard(screenplay_text, num_frames, visual_style)
app_generate_storyboard(text, n, visual_style, image_failures) ==
    LET r == GenerateStoryboardOf(agent, env_keys, text, n, visual_style,
                                  image_failures)
    IN /\ UNCHANGED <<env_keys, screenplay_calls, screenplay_ready, story_prompt>>
       /\ UNCHANGED <<character_embeddings, storage_file>>
       /\ IF Strip(text) = <<>>
          THEN /\ agent_call' = [op |-> "app.generate_storyboard",
                                 screenplay_text |-> text, num_frames |-> n,
                                 status |-> "warning", frame_images |-> <<>>,
                                 agent_called |-> FALSE]
               /\ UNCHANGED agent
          ELSE /\ agent' = r.agent
               /\ agent_call' =
                    [op |-> "app.generate_storyboard",
                     screenplay_text |-> text, num_frames |-> n,
                     status |-> IF r.raised THEN "error" ELSE "success",
                     frame_images |->
                        IF r.raised THEN <<>>
                        ELSE [i \in 1..Len(r.value.frames) |->
                                 r.value.frames[i].image_path],
                     agent_called |-> TRUE]

\* The frames whose image a call may fail to produce.
ImageRequests(text, n) ==
    LET r == GenerateStoryboardOf(agent, env_keys, text, n, "Noir", {})
    IN IF r.raised \/ r.agent.image_client = None THEN {}
       ELSE 1..Len(r.value.frames)

\* The agent of a specification that does not drive it.
IdleAgent ==
    /\ env_keys = {}
    /\ story_prompt = <<>>
    /\ InitAgent

\* No batch call was made and no function applied.
IdleLibrary ==
    /\ batch = [state |-> "idle"]
    /\ fn_call = [op |-> "none"]

(***************************************************************************)
(* SpecMoments: identify_key_moments applied to every text of at most      *)
(* MaxLines lines and every num_frames in -1..MaxFrames.                   *)
(***************************************************************************)
InitMoments ==
    /\ screenplay_text \in Texts
    /\ num_frames \in -1..MaxFrames
    /\ moments = <<>>
    /\ mpc = "call"
    /\ InitManager
    /\ IdleAgent
    /\ IdleLibrary

identify_key_moments ==
    /\ mpc = "call"
    /\ moments' = IdentifyKeyMoments(screenplay_text, num_frames)
    /\ mpc' = "returned"
    /\ UNCHANGED <<screenplay_text, num_frames>>
    /\ UNCHANGED <<managerVars, agentVars, libraryVars>>

NextMoments == identify_key_moments

SpecMoments == InitMoments /\ [][NextMoments]_vars

(***************************************************************************)
(* SpecManager: one CharacterConsistencyManager and its JSON file.         *)
(***************************************************************************)
IdleMoments ==
    /\ screenplay_text = <<>>
    /\ num_frames = 0
    /\ moments = <<>>
    /\ mpc = "idle"

InitManagerSpec == InitManager /\ IdleMoments /\ IdleAgent /\ IdleLibrary

StoreCharacter ==
    /\ \E n \in CharacterNames, d \in VisualDescriptions, m \in Metadatas :
          store_character(n, d, m)
    /\ UNCHANGED <<momentVars, agentVars, libraryVars>>

GetCharacterDescription ==
    /\ \E n \in CharacterNames, c \in {NoArg, Some(""), Some("night scene")} :
          get_character_description(n, c)
    /\ UNCHANGED <<momentVars, agentVars, libraryVars>>

LoadEmbeddings == load_embeddings /\ UNCHANGED <<momentVars, agentVars, libraryVars>>

NewManager == new_manager /\ UNCHANGED <<momentVars, agentVars, libraryVars>>

NextManagerSpec ==
    \/ StoreCharacter
    \/ GetCharacterDescription
    \/ LoadEmbeddings
    \/ NewManager

SpecManager == InitManagerSpec /\ [][NextManagerSpec]_vars

(***************************************************************************)
(* SpecConsistency: one CharacterConsistencyManager whose characters are   *)
(* stored under one description and then compared with new descriptions.   *)
(***************************************************************************)
StoreDescription ==
    /\ \E n \in CharacterNames : store_character(n, "Tall, dark hair", NoArg)
    /\ UNCHANGED <<momentVars, agentVars, libraryVars>>

ValidateConsistency ==
    /\ \E n \in CharacterNames, e \in NewEmbeddingOutcomes,
          t \in {NoArg, Some(500)} :
          validate_consistency(n, e, t)
    /\ UNCHANGED <<momentVars, agentVars, libraryVars>>

NextConsistency ==
    \/ StoreDescription
    \/ ValidateConsistency

SpecConsistency == InitManagerSpec /\ [][NextConsistency]_vars

(***************************************************************************)
(* Spec: one FrameFlowAgent in an environment that holds any of the three  *)
(* API keys.  The agent is driven directly and through the storyboard      *)
(* handler of app.py; at most MaxScreenplays screenplays are asked for.    *)
(***************************************************************************)
Init ==
    /\ env_keys \in SUBSET ApiKeys
    /\ story_prompt = <<>>
    /\ InitAgent
    /\ InitManager
    /\ IdleMoments
    /\ IdleLibrary

InitializeClients ==
    /\ initialize_clients
    /\ UNCHANGED <<momentVars, manager_call, libraryVars>>

GenerateScreenplay ==
    /\ screenplay_calls < MaxScreenplays
    /\ \E story_input \in StoryInputs, llm \in LLMResponses, names \in NameDraws,
          embedding \in AgentEmbeddingOutcomes :
          /\ Consulted(llm, names, embedding)
          /\ generate_screenplay(story_input, llm, names, embedding)
    /\ UNCHANGED <<momentVars, manager_call, libraryVars>>

GenerateStoryboard ==
    /\ \E text \in ScreenplayTexts, n \in 0..MaxFrames, visual_style \in VisualStyles :
          \E image_failures \in SUBSET ImageRequests(text, n) :
             generate_storyboard(text, n, visual_style, image_failures)
    /\ UNCHANGED <<momentVars, manager_call, libraryVars>>

\* generate_storyboard on the formatted text of the screenplay that
\* generate_screenplay has just returned.
GenerateStoryboardOfScreenplay ==
    /\ agent_call.op = "generate_screenplay"
    /\ ~agent_call.raised
    /\ LET text == FormattedTextLines(agent_call.value)
       IN \E n \in 0..MaxFrames, visual_style \in VisualStyles :
             \E image_failures \in SUBSET ImageRequests(text, n) :
                generate_storyboard(text, n, visual_style, image_failures)
    /\ UNCHANGED <<momentVars, manager_call, libraryVars>>

AppGenerateStoryboard ==
    /\ \E text \in ScreenplayTexts, n \in 0..MaxFrames, visual_style \in VisualStyles :
          \E image_failures \in SUBSET ImageRequests(text, n) :
             app_generate_storyboard(text, n, visual_style, image_failures)
    /\ UNCHANGED <<momentVars, manager_call, libraryVars>>

Next ==
    \/ InitializeClients
    \/ GenerateScreenplay
    \/ GenerateStoryboard
    \/ GenerateStoryboardOfScreenplay
    \/ AppGenerateStoryboard

Spec == Init /\ [][Next]_vars

(***************************************************************************)
(* SpecInput: one story prompt, given to validate_story_input, to the      *)
(* StoryInput constructor and to the screenplay handler of app.py, with no *)
(* API key in the environment.                                             *)
(***************************************************************************)
InitInput ==
    /\ env_keys = {}
    /\ story_prompt \in Prompts
    /\ InitAgent
    /\ InitManager
    /\ IdleMoments
    /\ IdleLibrary

ValidateStoryInput ==
    /\ agent_call' = [op |-> "validate_story_input", story_prompt |-> story_prompt,
                      raised |-> validate_story_input(story_prompt).raised]
    /\ UNCHANGED <<env_keys, agent, screenplay_calls, screenplay_ready, story_prompt>>
    /\ UNCHANGED <<momentVars, managerVars, libraryVars>>

ConstructStoryInput ==
    /\ \E f \in StoryForms :
          agent_call' = [op |-> "StoryInput", story_prompt |-> story_prompt,
                         raised |-> StoryInput(story_prompt, f.genre,
                                        f.dialogue_style, f.act_structure).raised]
    /\ UNCHANGED <<env_keys, agent, screenplay_calls, screenplay_ready, story_prompt>>
    /\ UNCHANGED <<momentVars, managerVars, libraryVars>>

AppGenerateScreenplay ==
    /\ screenplay_calls < MaxScreenplays
    /\ \E f \in StoryForms, llm \in LLMResponses, names \in NameDraws,
          embedding \in AgentEmbeddingOutcomes :
          /\ Consulted(llm, names, embedding)
          /\ app_generate_screenplay(story_prompt, f.genre, f.dialogue_style,
                                     f.act_structure, llm, names, embedding)
    /\ UNCHANGED <<momentVars, manager_call, libraryVars>>

NextInput ==
    \/ ValidateStoryInput
    \/ ConstructStoryInput
    \/ AppGenerateScreenplay

SpecInput == InitInput /\ [][NextInput]_vars

(***************************************************************************)
(* SpecBatch: SambaNovaClient.batch_generate and                           *)
(* NebiusClient.batch_create_embeddings.  Both build one coroutine for     *)
(* each input, in input order, and await asyncio.gather over them: gather  *)
(* wraps each in a task, the tasks finish in any order, and gather ends    *)
(* when the last task has its result or when the first task raises, the    *)
(* other tasks then running on.                                            *)
(***************************************************************************)
BatchMethods == {"batch_generate", "batch_create_embeddings"}
BatchInputs == {"a", "b"}
InputLists == UNION {[1..n -> BatchInputs] : n \in 0..MaxBatch}

\* What one generate or create_embedding call ends with: the text or vector
\* the backend answers to its input, or the error of raise_for_status.
CallOutcomes(input) ==
    {Returned([answer_to |-> input, variant |-> v]) : v \in {1, 2}} \cup {Raised}

\* Mutant: the results are listed in the order the tasks finished in.
GatherResults_CompletionOrder(tasks, finished) ==
    [k \in 1..Len(finished) |-> tasks[finished[k]].outcome.value]

\* The list gather returns: the result of each awaitable, in the order the
\* awaitables were passed in.
GatherResults(tasks, finished) ==
    [i \in 1..Len(tasks) |-> tasks[i].outcome.value]

\* Mutant: gather as with return_exceptions, a failure kept apart and the
\* results of the other calls returned.
Gather_Isolated(method, inputs, tasks, finished, state) ==
    LET all_done == \A i \in 1..Len(tasks) : tasks[i].done
        succeeded(t) == ~t.outcome.raised
    IN [state |-> IF all_done THEN "returned" ELSE "gathering",
        method |-> method, inputs |-> inputs, tasks |-> tasks,
        finished |-> finished,
        value |-> IF all_done
                  THEN Some([k \in 1..Len(SelectSeq(tasks, succeeded)) |->
                               SelectSeq(tasks, succeeded)[k].outcome.value])
                  ELSE NoArg]

\* await asyncio.gather(*tasks) as the tasks stand, finished being the
\* indexes of the ended tasks in the order they ended in.
Gather(method, inputs, tasks, finished, state) ==
    LET failed == {i \in 1..Len(tasks) : tasks[i].done /\ tasks[i].outcome.raised}
        all_done == \A i \in 1..Len(tasks) : tasks[i].done
    IN [state |-> IF state = "raised" \/ failed # {} THEN "raised"
                  ELSE IF all_done THEN "returned" ELSE "gathering",
        method |-> method, inputs |-> inputs, tasks |-> tasks,
        finished |-> finished,
        value |-> IF failed = {} /\ all_done
                  THEN Some(GatherResults(tasks, finished)) ELSE NoArg]

\* batch_generate(prompts) or batch_create_embeddings(texts) is called.
batch_call(method, inputs) ==
    /\ batch.state = "idle"
    /\ batch' = Gather(method, inputs,
                       [i \in 1..Len(inputs) |->
                           [input |-> inputs[i], done |-> FALSE, outcome |-> Raised]],
                       <<>>, "gathering")
    /\ UNCHANGED fn_call

\* The call of task i ends; gather's callback runs with it.
task_done(i, outcome) ==
    /\ batch.state \in {"gathering", "raised"}
    /\ ~batch.tasks[i].done
    /\ batch' = Gather(batch.method, batch.inputs,
                       [batch.tasks EXCEPT ![i] = [input |-> @.input, done |-> TRUE,
                                                   outcome |-> outcome]],
                       Append(batch.finished, i), batch.state)
    /\ UNCHANGED fn_call

InitLibrary ==
    /\ IdleLibrary
    /\ InitManager
    /\ IdleMoments
    /\ IdleAgent

BatchGenerate ==
    /\ \E prompts \in InputLists : batch_call("batch_generate", prompts)
    /\ UNCHANGED <<momentVars, managerVars, agentVars>>

BatchCreateEmbeddings ==
    /\ \E texts \in InputLists : batch_call("batch_create_embeddings", texts)
    /\ UNCHANGED <<momentVars, managerVars, agentVars>>

TaskDone ==
    /\ batch.state # "idle"
    /\ \E i \in 1..Len(batch.tasks) :
          \E outcome \in CallOutcomes(batch.tasks[i].input) : task_done(i, outcome)
    /\ UNCHANGED <<momentVars, managerVars, agentVars>>

NextBatch ==
    \/ BatchGenerate
    \/ BatchCreateEmbeddings
    \/ TaskDone

SpecBatch == InitLibrary /\ [][NextBatch]_vars

(***************************************************************************)
(* ScreenplaySceneWriter._parse_location                                   *)
(* (screenplay_generator/scene_writer.py).  A string is the sequence of    *)
(* its characters; the white space of the model is the space.              *)
(***************************************************************************)
\* The alternatives of the two groups, in the order the pattern lists them.
SettingWords == <<<<"I", "N", "T">>, <<"E", "X", "T">>,
                  <<"I", "N", "T", "/", "E", "X", "T">>>>
TimeWords == <<<<"D", "A", "Y">>, <<"N", "I", "G", "H", "T">>,
               <<"D", "A", "W", "N">>, <<"D", "U", "S", "K">>,
               <<"C", "O", "N", "T", "I", "N", "U", "O", "U", "S">>>>

\* word stands in str at position q.
HasAt(str, q, word) ==
    /\ q + Len(word) - 1 <= Len(str)
    /\ SubSeq(str, q, q + Len(word) - 1) = word

\* \s* from position q, greedy: the position of the first character that is
\* not white space (Len(str) + 1 at the end).
SkipSpaces(str, q) ==
    CHOOSE r \in q..(Len(str) + 1) :
        /\ \A k \in q..(r - 1) : str[k] = " "
        /\ r = Len(str) + 1 \/ str[r] # " "

\* \s*-\s*(DAY|NIGHT|DAWN|DUSK|CONTINUOUS) from position q of the
\* upper-cased string: the index of the time that matches, 0 for none.
TimeAfterHyphen(upper, q) ==
    LET hyphen == SkipSpaces(upper, q)
        hits == IF hyphen <= Len(upper) /\ upper[hyphen] = "-"
                THEN {k \in 1..Len(TimeWords) :
                        HasAt(upper, SkipSpaces(upper, hyphen + 1), TimeWords[k])}
                ELSE {}
    IN IF hits = {} THEN 0 ELSE CHOOSE k \in hits : \A h \in hits : k <= h

\* re.match(r'(INT|EXT|INT/EXT)\.?\s*(.+?)\s*-\s*(DAY|...)', location_str,
\* re.IGNORECASE).  An attempt is the alternative k of the first group,
\* whether \.? takes a full stop (d) and the number w of spaces \s* takes;
\* the engine tries the alternatives in order, the full stop before none,
\* more spaces before fewer, and for the lazy group the shortest run first.
LocationMatch(location_str) ==
    LET upper == Upper(location_str)
        n == Len(upper)
        GroupStart(a) == Len(SettingWords[a[1]]) + 1 + a[2] + a[3]
        Lengths(a) == {l \in 1..(n - GroupStart(a) + 1) :
                          TimeAfterHyphen(upper, GroupStart(a) + l) # 0}
        attempts ==
            {a \in (1..Len(SettingWords)) \X {0, 1} \X (0..n) :
                /\ HasAt(upper, 1, SettingWords[a[1]])
                /\ a[2] = 1 => HasAt(upper, Len(SettingWords[a[1]]) + 1, <<".">>)
                /\ \A k \in 1..a[3] :
                      HasAt(upper, Len(SettingWords[a[1]]) + a[2] + k, <<" ">>)
                /\ Lengths(a) # {}}
        Rank(a) == a[1] * 4 * (n + 1) + (1 - a[2]) * 2 * (n + 1) + (n - a[3])
    IN IF attempts = {} THEN NoArg
       ELSE LET a == CHOOSE x \in attempts : \A y \in attempts : Rank(x) <= Rank(y)
                l == CHOOSE x \in Lengths(a) : \A y \in Lengths(a) : x <= y
            IN Some([group1 |-> SubSeq(location_str, 1, Len(SettingWords[a[1]])),
                     group2 |-> SubSeq(location_str, GroupStart(a), GroupStart(a) + l - 1),
                     group3 |-> TimeWords[TimeAfterHyphen(upper, GroupStart(a) + l)]])

\* The else branch of _parse_location: location_str.split('-') and, for a
\* first part that starts with INT or EXT as written,
\* re.match(r'(INT|EXT|INT/EXT)\.?\s*(.+)', loc_part, re.IGNORECASE).
SimplerParse(location_str) ==
    LET hyphens == {i \in 1..Len(location_str) : location_str[i] = "-"}
        first == CHOOSE i \in hyphens : \A h \in hyphens : i <= h
        last == CHOOSE i \in hyphens : \A h \in hyphens : i >= h
        loc_part == Strip(SubSeq(location_str, 1, first - 1))
        rest == SubSeq(loc_part, 4, Len(loc_part))
        time == Upper(Strip(SubSeq(location_str, last + 1, Len(location_str))))
    IN IF hyphens = {}
       THEN [setting |-> <<"I", "N", "T">>, location |-> <<"L", "O", "C", "A", "T", "I", "O", "N">>, time |-> <<"D", "A", "Y">>]
       ELSE IF (HasAt(loc_part, 1, <<"I", "N", "T">>) \/ HasAt(loc_part, 1, <<"E", "X", "T">>)) /\ rest # <<>>
       THEN [setting |-> SubSeq(loc_part, 1, 3),
             location |-> Upper(IF rest[1] = "." /\ Len(rest) > 1
                                THEN Strip(Tail(rest)) ELSE Strip(rest)),
             time |-> time]
       ELSE [setting |-> <<"I", "N", "T">>, location |-> <<"L", "O", "C", "A", "T", "I", "O", "N">>, time |-> time]

\* _parse_location(location_str)
ParseLocation(location_str) ==
    LET match == LocationMatch(location_str)
    IN IF match.some
       THEN [setting |-> Upper(match.value.group1),
             location |-> Upper(Strip(match.value.group2)),
             time |-> Upper(match.value.group3)]
       ELSE SimplerParse(location_str)

\* The headings of the form "<SETTING>. <NAME> - <TIME>", written in
\* capitals and in small letters: parts of a heading and the headings.
HeadingSettings == {SettingWords[k] : k \in 1..Len(SettingWords)}
HeadingNames == {<<"C", "O", "F", "F", "E", "E", " ", "S", "H", "O", "P">>, <<"D", "A", "Y", " ", "C", "A", "R", "E">>, <<"A">>}
HeadingTimes == {TimeWords[k] : k \in 1..Len(TimeWords)}
\* Spelling c of a word: 1 as it is, 2 in small letters, 3 with a capital.
Spelt(word, c) == IF c = 1 THEN word ELSE IF c = 2 THEN Lower(word) ELSE Title(word)
WellFormedHeadings ==
    {[setting |-> st, name |-> nm, time |-> tm,
      text |-> Spelt(st, c[1]) \o <<".", " ">> \o Spelt(nm, c[2])
                  \o <<" ", "-", " ">> \o Spelt(tm, c[3])] :
        st \in HeadingSettings, nm \in HeadingNames, tm \in HeadingTimes,
        c \in {<<1, 1, 1>>, <<2, 2, 2>>, <<2, 1, 3>>}}

(***************************************************************************)
(* ScreenplayOutput.to_formatted_text (core/schemas.py).  The text is the  *)
(* sequence of its characters, "\n" the line feed.                         *)
(***************************************************************************)
\* str(n) of a number below 10.
Str(n) == <<<<"0", "1", "2", "3", "4", "5", "6", "7", "8", "9">>[n + 1]>>

RECURSIVE Join(_, _)
\* sep.join(lines)
Join(sep, lines) ==
    IF lines = <<>> THEN <<>>
    ELSE IF Len(lines) = 1 THEN lines[1]
    ELSE lines[1] \o sep \o Join(sep, Tail(lines))

\* "=" * 60 between two line feeds
Separator == <<"\n">> \o [i \in 1..60 |-> "="] \o <<"\n">>

\* heading = f"{scene_number}. {setting}. {location} - {time}"
SceneHeading(scene) ==
    Str(scene.scene_number) \o <<".", " ">> \o scene.location.setting \o <<".", " ">>
        \o scene.location.location \o <<" ", "-", " ">> \o scene.location.time

RECURSIVE DialogueLines(_)
\* The lines of the dialogue loop: the cue, the parenthetical if any, the line.
DialogueLines(dialogue) ==
    IF dialogue = <<>> THEN <<>>
    ELSE LET d == Head(dialogue)
         IN <<<<"\n">> \o [i \in 1..20 |-> " "] \o Upper(d.character)>>
            \o (IF d.parenthetical # <<>>
                THEN <<[i \in 1..15 |-> " "] \o <<"(">> \o d.parenthetical \o <<")">>>>
                ELSE <<>>)
            \o <<[i \in 1..10 |-> " "] \o d.line \o <<"\n">>>>
            \o DialogueLines(Tail(dialogue))

RECURSIVE SceneLines(_)
\* The lines of the scene loop, the scenes taken in list order.
SceneLines(scenes) ==
    IF scenes = <<>> THEN <<>>
    ELSE LET scene == Head(scenes)
         IN <<<<"\n">> \o Upper(SceneHeading(scene)) \o <<"\n">>>>
            \o (IF scene.action # <<>> THEN <<scene.action \o <<"\n">>>> ELSE <<>>)
            \o DialogueLines(scene.dialogue)
            \o SceneLines(Tail(scenes))

\* to_formatted_text()
ToFormattedText(screenplay) ==
    Join(<<"\n">>,
         <<Upper(screenplay.metadata.title),
           <<"\n", "b", "y", " ">> \o screenplay.metadata.author,
           <<"\n">> \o screenplay.metadata.draft,
           <<"\n">> \o screenplay.metadata.created_at,
           Separator>>
         \o (IF screenplay.characters # <<>>
             THEN <<<<"\n", "C", "H", "A", "R", "A", "C", "T", "E", "R", "S", ":", "\n">>>>
                  \o [i \in 1..Len(screenplay.characters) |->
                        LET char == screenplay.characters[i]
                        IN <<" ", " ">> \o Upper(char.name)
                           \o (IF char.age # 0 THEN <<",", " ">> \o Str(char.age) ELSE <<>>)
                           \o <<" ", "-", " ">> \o char.description]
                  \o <<Separator>>
             ELSE <<>>)
         \o SceneLines(screenplay.scenes))

\* The screenplays of the model: at most MaxSceneList scenes taken from
\* scenes numbered 1 and 2, in any order, with or without a character.
SceneLocations ==
    {[setting |-> <<"I", "N", "T">>, location |-> <<"A">>, time |-> <<"D", "A", "Y">>],
     [setting |-> <<"e", "x", "t">>, location |-> <<"b", " ", "c">>, time |-> <<"n", "i", "g", "h", "t">>]}
FormattedScenes ==
    {[scene_number |-> n, location |-> l, action |-> x.action, dialogue |-> x.dialogue] :
        n \in 1..2, l \in SceneLocations,
        x \in {[action |-> <<>>, dialogue |-> <<>>],
               [action |-> <<"H", "e", " ", "s", "i", "t", "s", ".">>,
                dialogue |-> <<[character |-> <<"B", "o">>, parenthetical |-> <<>>,
                                line |-> <<"H", "i", ".">>],
                               [character |-> <<"a", "l">>, parenthetical |-> <<"l", "o", "w">>,
                                line |-> <<"N", "o", ".">>]>>]}}
Screenplays ==
    {[metadata |-> [title |-> <<"D", "u", "s", "k">>, author |-> <<"F", "r", "a", "m", "e", "F", "l", "o", "w", " ", "A", "g", "e", "n", "t">>,
                    draft |-> <<"F", "i", "r", "s", "t", " ", "D", "r", "a", "f", "t">>, created_at |-> <<"M", "a", "y", " ", "0", "1", ",", " ", "2", "0", "2", "5">>],
      characters |-> cs, scenes |-> sc] :
        cs \in {<<>>, <<[name |-> <<"B", "o">>, age |-> 0, description |-> <<"A", " ", "c", "o", "o", "k">>],
                        [name |-> <<"a", "l">>, age |-> 7, description |-> <<"A", " ", "b", "o", "y">>]>>},
        sc \in UNION {[1..k -> FormattedScenes] : k \in 0..MaxSceneList}}

(***************************************************************************)
(* KeyMomentDetector._parse_scenes on the characters of a text: re.split   *)
(* on the heading pattern                                                  *)
(*   (\d+\.?\s*(?:INT|EXT|INT/EXT)\.?\s+.+?\s+-\s+(?:DAY|NIGHT|DAWN|DUSK|     *)
(*    CONTINUOUS)), re.IGNORECASE.                                          *)
(***************************************************************************)
Digits == {"0", "1", "2", "3", "4", "5", "6", "7", "8", "9"}
WhiteSpace == {" ", "\n"}
IsDigit(c) == c \in Digits
IsSpace(c) == c \in WhiteSpace

\* The position after the longest run of characters of chars from q (q
\* itself when there is none).
RunEnd(str, q, chars) ==
    CHOOSE r \in q..(Len(str) + 1) :
        /\ \A k \in q..(r - 1) : str[k] \in chars
        /\ r = Len(str) + 1 \/ str[r] \notin chars

\* The position after the longest run of characters outside chars from q.
RunEndOutside(str, q, chars) ==
    CHOOSE r \in q..(Len(str) + 1) :
        /\ \A k \in q..(r - 1) : str[k] \notin chars
        /\ r = Len(str) + 1 \/ str[r] \in chars

\* \s+-\s+(?:DAY|...) from position q of the upper-cased text: the position
\* after the time, 0 when it does not match.
TimeEnd(upper, q) ==
    LET hyphen == RunEnd(upper, q, WhiteSpace)
        time == RunEnd(upper, hyphen + 1, WhiteSpace)
        hits == IF hyphen > q /\ hyphen <= Len(upper) /\ upper[hyphen] = "-"
                   /\ time > hyphen + 1
                THEN {k \in 1..Len(TimeWords) : HasAt(upper, time, TimeWords[k])}
                ELSE {}
    IN IF hits = {} THEN 0
       ELSE time + Len(TimeWords[CHOOSE k \in hits : \A h \in hits : k <= h])

\* tries is a set of <<order, end>>, end being the position after the match
\* of one try of the engine and 0 for a try that fails.  The try that
\* succeeds with the smallest order, <<0, 0>> when every try fails.
FirstHit(tries) ==
    TheOne({IF hits = {} THEN <<0, 0>>
            ELSE CHOOSE h \in hits : \A o \in hits : h[1] <= o[1] :
               hits \in {{t \in tries : t[2] # 0}}})

\* The try that succeeds with the largest order, <<0, 0>> when every try
\* fails.
LastHit(tries) ==
    TheOne({IF hits = {} THEN <<0, 0>>
            ELSE CHOOSE h \in hits : \A o \in hits : h[1] >= o[1] :
               hits \in {{t \in tries : t[2] # 0}}})

\* (.+?)\s+-\s+(?:DAY|...) with the lazy group starting at position g: the
\* position after the match for the shortest group that lets the rest
\* match, 0 when there is none.  The group holds no line feed.
GroupThenTimeEnd(text, upper, g) ==
    IF g > Len(text) THEN 0
    ELSE FirstHit({<<q, TimeEnd(upper, q)>> :
                     q \in (g + 1)..RunEndOutside(text, g, {"\n"})})[2]

\* One attempt at position word: the alternative k of the setting, \.? taking
\* a full stop (d = 1) or nothing (d = 0), then \s+, which tries more white
\* space before less.  The position after the match, 0 for none.
AttemptEnd(text, upper, word, k, d) ==
    LET after == word + Len(SettingWords[k]) + d
    IN IF ~HasAt(upper, word, SettingWords[k]) THEN 0
       ELSE IF d = 1 /\ ~HasAt(text, after - 1, <<".">>) THEN 0
       ELSE LastHit({<<g, GroupThenTimeEnd(text, upper, g)>> :
                       g \in (after + 1)..RunEnd(text, after, WhiteSpace)})[2]

\* The attempts in the order the engine tries them: the alternatives of the
\* setting in order, the full stop before none.
AttemptOrder == <<<<1, 1>>, <<1, 0>>, <<2, 1>>, <<2, 0>>, <<3, 1>>, <<3, 0>>>>

\* The pattern matched at position p of the text: the position after the
\* match, 0 when it does not match there.  \d+, \.? and \s* take what they
\* can (giving back never helps, the next item being a letter).
HeadingEnd(text, upper, p) ==
    LET digits == RunEnd(text, p, Digits)
        stop == IF digits <= Len(text) /\ text[digits] = "." THEN digits + 1 ELSE digits
    IN IF digits = p THEN 0
       ELSE FirstHit({<<i, AttemptEnd(text, upper, word,
                                      AttemptOrder[i][1], AttemptOrder[i][2])>> :
                        i \in 1..Len(AttemptOrder),
                        word \in {RunEnd(text, stop, WhiteSpace)}})[2]

\* The first match of the pattern at or after position p:
\* <<first position, position after the match>>, <<0, 0>> when there is none.
NextHeading(text, upper, p) ==
    FirstHit({<<q, HeadingEnd(text, upper, q)>> :
                q \in {k \in p..Len(text) : IsDigit(text[k])}})

RECURSIVE HeadingSpans(_, _, _)
\* The matches of the pattern from position p on, from left to right, none
\* overlapping another: <<first position, position after the match>>.
HeadingSpans(text, upper, p) ==
    TheOne({IF span[1] = 0 THEN <<>>
            ELSE <<span>> \o HeadingSpans(text, upper, span[2]) :
               span \in {NextHeading(text, upper, p)}})

\* _parse_scenes(screenplay_text): one scene for each heading found, numbered
\* from 1 in the order of the text, its content running to the next heading.
ParseScenesOfText(text) ==
    TheOne({[i \in 1..Len(spans) |->
               [scene_number |-> i,
                heading |-> SubSeq(text, spans[i][1], spans[i][2] - 1),
                content |-> SubSeq(text, spans[i][2],
                                   IF i < Len(spans) THEN spans[i + 1][1] - 1
                                   ELSE Len(text))]] :
              spans \in {HeadingSpans(text, upper, 1) : upper \in {Upper(text)}}})

(***************************************************************************)
(* ScreenplaySceneWriter._parse_scene_text (scene_writer.py): the lines of *)
(* a backend's scene text, taken one by one.                               *)
(***************************************************************************)
\* str.isupper(): a cased character, and no lower-case one.
IsUpper(str) ==
    /\ \E i \in 1..Len(str) : str[i] \in DOMAIN ToLower
    /\ \A i \in 1..Len(str) : str[i] \notin DOMAIN ToUpper

\* len(str.split()): the number of words.
WordCount(str) ==
    Cardinality({i \in 1..Len(str) :
                   str[i] # " " /\ (i = 1 \/ str[i - 1] = " ")})

\* _is_scene_heading(line):
\* re.match(r'(INT|EXT|INT/EXT)\.?\s+.+\s+-\s+(DAY|...)', line, re.IGNORECASE)
IsSceneHeading(line) ==
    \E i \in 1..Len(AttemptOrder) :
        AttemptEnd(line, Upper(line), 1, AttemptOrder[i][1], AttemptOrder[i][2]) # 0

\* The test for a character name: all capitals, at most three words, fewer
\* than 30 characters.
IsCharacterCue(stripped) ==
    IsUpper(stripped) /\ WordCount(stripped) <= 3 /\ Len(stripped) < 30

\* stripped.startswith('(') and stripped.endswith(')')
IsParenthesised(stripped) ==
    stripped # <<>> /\ Head(stripped) = "(" /\ stripped[Len(stripped)] = ")"

\* current_action flushed into action_lines: ' '.join(current_action)
Flushed(st) ==
    IF st.current_action = <<>> THEN st
    ELSE [st EXCEPT !.action_lines = Append(@, Join(<<" ">>, st.current_action)),
                    !.current_action = <<>>]

RECURSIVE ParseSceneLines(_, _)
\* The loop over the lines; st holds action_lines, dialogue_list,
\* current_action, current_character and current_parenthetical.
ParseSceneLines(lines, st) ==
    IF lines = <<>> THEN st
    ELSE LET stripped == Strip(Head(lines))
         IN ParseSceneLines(Tail(lines),
              IF stripped = <<>> \/ IsSceneHeading(stripped) THEN st
              ELSE IF IsCharacterCue(stripped)
              THEN [Flushed(st) EXCEPT !.current_character = Some(stripped),
                                       !.current_parenthetical = NoArg]
              ELSE IF IsParenthesised(stripped)
              THEN [st EXCEPT !.current_parenthetical =
                                 Some(SubSeq(stripped, 2, Len(stripped) - 1))]
              ELSE IF st.current_character.some
              THEN [st EXCEPT !.dialogue_list =
                                 Append(@, [character |-> st.current_character.value,
                                            line |-> stripped,
                                            parenthetical |-> st.current_parenthetical]),
                              !.current_character = NoArg,
                              !.current_parenthetical = NoArg]
              ELSE [st EXCEPT !.current_action = Append(@, stripped)])

\* _parse_scene_text(scene_text, scene_number, location), scene_text given by
\* its lines (scene_text.split('\n')): the paragraphs of action joined by an
\* empty line, and the dialogue.
ParseSceneText(lines, scene_number, location) ==
    LET st == Flushed(ParseSceneLines(lines,
                  [action_lines |-> <<>>, dialogue_list |-> <<>>,
                   current_action |-> <<>>, current_character |-> NoArg,
                   current_parenthetical |-> NoArg]))
    IN [scene_number |-> scene_number,
        location |-> location,
        action |-> Join(<<"\n", "\n">>, st.action_lines),
        dialogue |-> st.dialogue_list]

\* The lines of the scene texts of the model: an empty line, a heading, a
\* cue, a parenthesised line and two lines of prose.
SceneTextLines ==
    {<<>>,
     <<"I", "N", "T", ".", " ", "A", " ", "-", " ", "D", "A", "Y">>,
     <<" ", "B", "O">>,
     <<"(", "l", "o", "w", ")">>,
     <<"H", "e", " ", "s", "i", "t", "s", ".">>,
     <<" ", "H", "i", ".", " ">>}
SceneTexts == UNION {[1..n -> SceneTextLines] : n \in 0..MaxSceneLines}

(***************************************************************************)
(* ScreenplaySceneWriter._wrap_dialogue (scene_writer.py).                 *)
(***************************************************************************)
DefaultMaxWidth == 60

RECURSIVE SplitWords(_, _)
\* text.split() from position p: the runs of characters that are not white
\* space.
SplitWords(text, p) ==
    LET start == RunEnd(text, p, WhiteSpace)
        end == RunEndOutside(text, start, WhiteSpace)
    IN IF p > Len(text) \/ start > Len(text) THEN <<>>
       ELSE <<SubSeq(text, start, end - 1)>> \o SplitWords(text, end)

RECURSIVE WrapWords(_, _, _)
\* The loop over the words; st holds lines, current_line and current_length.
WrapWords(words, max_width, st) ==
    IF words = <<>> THEN st
    ELSE LET word == Head(words)
             word_length == Len(word) + 1
         IN WrapWords(Tail(words), max_width,
              IF st.current_length + word_length > max_width /\ st.current_line # <<>>
              THEN [lines |-> Append(st.lines, Join(<<" ">>, st.current_line)),
                    current_line |-> <<word>>,
                    current_length |-> Len(word)]
              ELSE [lines |-> st.lines,
                    current_line |-> Append(st.current_line, word),
                    current_length |-> st.current_length + word_length])

\* Mutant: the line in progress at the end is not added.
WrapDialogue_LastLineLeftOut(text, max_width) ==
    WrapWords(SplitWords(text, 1), max_width,
              [lines |-> <<>>, current_line |-> <<>>, current_length |-> 0]).lines

\* _wrap_dialogue(text, max_width)
WrapDialogue(text, max_width) ==
    LET st == WrapWords(SplitWords(text, 1), max_width,
                  [lines |-> <<>>, current_line |-> <<>>, current_length |-> 0])
    IN IF st.current_line # <<>>
       THEN Append(st.lines, Join(<<" ">>, st.current_line))
       ELSE st.lines

\* The dialogue texts of the model: at most MaxTextLen characters out of two
\* letters and the space.
DialogueTexts == UNION {[1..n -> {"a", "b", " "}] : n \in 0..MaxTextLen}

(***************************************************************************)
(* SpecFunctions: the methods that keep no state, each applied to inputs   *)
(* drawn from a bounded set, one call in a behaviour; fn_call holds the     *)
(* call and its result.                                                    *)
(***************************************************************************)
\* Embedding vectors of two components.
Vectors == [1..2 -> -1..2]

\* StoryStructureAnalyzer(llm_client).analyze(story_input)
AnalyzeCall ==
    /\ fn_call.op = "none"
    /\ \E llm_client \in {None, "SambaNovaClient"}, story_input \in StoryInputs,
          response \in {Raised} \cup {Returned(pa) : pa \in ParsedAnalyses} :
          /\ llm_client = None => response = Raised
          /\ fn_call' = [op |-> "analyze", llm_client |-> llm_client,
                         story_input |-> story_input,
                         result |-> Analyze(llm_client, story_input, response)]
    /\ UNCHANGED <<batch, momentVars, managerVars, agentVars>>

\* NebiusClient.cosine_similarity(embedding1, embedding2)
CosineSimilarityCall ==
    /\ fn_call.op = "none"
    /\ \E embedding1 \in Vectors, embedding2 \in Vectors :
          fn_call' = [op |-> "cosine_similarity", embedding1 |-> embedding1,
                      embedding2 |-> embedding2,
                      result |-> Returned(CosineSimilarity(embedding1, embedding2))]
    /\ UNCHANGED <<batch, momentVars, managerVars, agentVars>>

\* ScreenplaySceneWriter._parse_location(location_str)
ParseLocationCall ==
    /\ fn_call.op = "none"
    /\ \E h \in WellFormedHeadings :
          fn_call' = [op |-> "_parse_location", heading |-> h,
                      result |-> Returned(ParseLocation(h.text))]
    /\ UNCHANGED <<batch, momentVars, managerVars, agentVars>>

\* ScreenplayOutput.to_formatted_text()
ToFormattedTextCall ==
    /\ fn_call.op = "none"
    /\ \E screenplay \in Screenplays :
          fn_call' = [op |-> "to_formatted_text", screenplay |-> screenplay,
                      result |-> Returned(ToFormattedText(screenplay))]
    /\ UNCHANGED <<batch, momentVars, managerVars, agentVars>>

\* Strings given to _parse_location: the empty string, text without a
\* hyphen, headings the pattern matches, and text with a hyphen that it does
\* not match.
LocationStrings ==
    {<<>>,
     <<"I", "N", "T", ".", " ", "A">>,
     <<"i", "n", "t", ".", " ", "a", " ", "-", " ", "d", "a", "y">>,
     <<"E", "X", "T", " ", "B", "-", "D", "U", "S", "K">>,
     <<"I", "N", "T", ".", " ", "A", " ", "-", " ", "N", "O", "O", "N">>,
     <<"a", " ", "-", " ", "b">>,
     <<"-">>}

\* ScreenplaySceneWriter()._parse_location(location_str), for any string
ParseLocationOfStringCall ==
    /\ fn_call.op = "none"
    /\ \E location_str \in LocationStrings :
          fn_call' = [op |-> "_parse_location of a string",
                      location_str |-> location_str,
                      result |-> Returned(ParseLocation(location_str))]
    /\ UNCHANGED <<batch, momentVars, managerVars, agentVars>>

\* StoryStructureAnalyzer().identify_key_scenes(analysis, num_scenes), for
\* the analyses that analyze returns
IdentifyKeyScenesCall ==
    /\ fn_call.op = "none"
    /\ \E story_input \in StoryInputs, num_scenes \in 0..MaxNumScenes,
          response \in {Raised} \cup {Returned(pa) : pa \in ParsedAnalyses} :
          LET analysis == Analyze(IF response.raised THEN None ELSE "SambaNovaClient",
                                  story_input, response).value
          IN fn_call' = [op |-> "identify_key_scenes", analysis |-> analysis,
                         num_scenes |-> num_scenes,
                         result |-> Returned(IdentifyKeyScenes(analysis, num_scenes))]
    /\ UNCHANGED <<batch, momentVars, managerVars, agentVars>>

\* ScreenplaySceneWriter()._wrap_dialogue(text) and
\* ScreenplaySceneWriter()._wrap_dialogue(text, max_width)
WrapDialogueCall ==
    /\ fn_call.op = "none"
    /\ \E text \in DialogueTexts, width \in {NoArg, Some(3), Some(4)} :
          LET max_width == IF width.some THEN width.value ELSE DefaultMaxWidth
          IN fn_call' = [op |-> "_wrap_dialogue", text |-> text,
                         max_width |-> max_width,
                         result |-> Returned(WrapDialogue(text, max_width))]
    /\ UNCHANGED <<batch, momentVars, managerVars, agentVars>>

\* The protagonist of an analysis: a name, a first word without a letter,
\* the empty string, white space.
ProtagonistTexts == {MainCharacter, <<"_", " ", "x">>, <<>>, <<" ">>}

\* CharacterProfileCreator(llm_client=None).create_characters(analysis, genre,
\* num_characters)
CreateCharactersCall ==
    /\ fn_call.op = "none"
    /\ \E protagonist \in ProtagonistTexts, antagonist \in {"", "Forces of opposition"},
          genre \in Genres, num_characters \in 1..NumCharacters, names \in NameDraws :
          LET analysis == [protagonist |-> protagonist, antagonist |-> antagonist]
          IN fn_call' = [op |-> "create_characters", analysis |-> analysis,
                         genre |-> genre, num_characters |-> num_characters,
                         result |-> CreateCharacters(None, analysis, genre,
                                                     num_characters, Raised, names)]
    /\ UNCHANGED <<batch, momentVars, managerVars, agentVars>>

\* A text of n scenes, line by line: a heading for each scene and, in scene
\* j, a line with the keyword "fight" (no such line for j = 0).
TextOfScenes(n, j) ==
    [k \in 1..(IF j = 0 THEN n ELSE n + 1) |->
        IF j # 0 /\ k = j + 1 THEN "fight" ELSE "H"]

\* KeyMomentDetector()._score_scenes(scenes), scenes being the parsed scenes
\* of a text
ScoreScenesCall ==
    /\ fn_call.op = "none"
    /\ \E n \in 0..MaxSceneCount :
          \E j \in 0..n :
             fn_call' = [op |-> "_score_scenes", total_scenes |-> n, keyword_scene |-> j,
                         result |-> Returned(ScoreScenes(ParseScenes(TextOfScenes(n, j))))]
    /\ UNCHANGED <<batch, momentVars, managerVars, agentVars>>

\* KeyMomentDetector._parse_scenes(screenplay.to_formatted_text())
ParseScenesCall ==
    /\ fn_call.op = "none"
    /\ \E screenplay \in Screenplays :
          \E text \in {ToFormattedText(screenplay)} :
             fn_call' = [op |-> "_parse_scenes", screenplay |-> screenplay,
                         result |-> Returned(ParseScenesOfText(text))]
    /\ UNCHANGED <<batch, momentVars, managerVars, agentVars>>

\* ScreenplaySceneWriter()._parse_scene_text(scene_text, 1, location)
ParseSceneTextCall ==
    /\ fn_call.op = "none"
    /\ \E lines \in SceneTexts :
          fn_call' = [op |-> "_parse_scene_text", lines |-> lines,
                      result |-> Returned(ParseSceneText(lines, 1,
                                    [setting |-> "INT", location |-> "LOCATION",
                                     time |-> "DAY"]))]
    /\ UNCHANGED <<batch, momentVars, managerVars, agentVars>>

NextFunctions ==
    \/ AnalyzeCall
    \/ CosineSimilarityCall
    \/ ParseLocationCall
    \/ ToFormattedTextCall
    \/ ParseScenesCall
    \/ ParseSceneTextCall
    \/ ParseLocationOfStringCall
    \/ IdentifyKeyScenesCall
    \/ WrapDialogueCall
    \/ CreateCharactersCall
    \/ ScoreScenesCall

SpecFunctions == InitLibrary /\ [][NextFunctions]_vars

(***************************************************************************)
(* Claims about identify_key_moments (SpecMoments).                        *)
(***************************************************************************)
ParsedSceneCount == Len(ParseScenes(screenplay_text))
ScoredScenes == ScoreScenes(ParseScenes(screenplay_text))
SelectedSceneNumbers == {moments[i].scene_number : i \in 1..Len(moments)}

\* C4: for a text that parses into n scenes with n >= num_frames >= 0 the
\* result has exactly num_frames moments, their scene_number values are
\* strictly ascending and their frame_number values are 1, 2, ..., num_frames
\* in list order.
C4_ExactlyNumFramesAscending ==
    (mpc = "returned" /\ num_frames >= 0 /\ ParsedSceneCount >= num_frames) =>
        /\ Len(moments) = num_frames
        /\ \A i \in 1..Len(moments) : moments[i].frame_number = i
        /\ \A i \in 1..(Len(moments) - 1) :
              moments[i].scene_number < moments[i + 1].scene_number

\* Two of three scenes were selected, and the later one had the higher score.
C4_Witness ==
    /\ mpc = "returned" /\ num_frames = 2 /\ ParsedSceneCount = 3
    /\ Len(moments) = 2
    /\ moments[1].scene_number = 1 /\ moments[2].scene_number = 3
    /\ moments[2].importance > moments[1].importance

\* C5: the moments are the num_frames highest-scoring scenes: no scene left
\* out has a strictly higher score than a selected one, and of two scenes of
\* equal score of which one is selected, the selected one is the earlier.
C5_TopByScoreTiesEarlier ==
    (mpc = "returned" /\ num_frames >= 0) =>
        /\ Len(moments) = Min(num_frames, ParsedSceneCount)
        /\ \A i \in 1..Len(moments) :
              moments[i].importance = ScoredScenes[moments[i].scene_number].score
        /\ \A i \in SelectedSceneNumbers :
              \A j \in (1..ParsedSceneCount) \ SelectedSceneNumbers :
                 /\ ScoredScenes[j].score <= ScoredScenes[i].score
                 /\ ScoredScenes[j].score = ScoredScenes[i].score => i < j

\* Two scenes tie, one of them is selected and the other is not.
C5_Witness ==
    /\ mpc = "returned" /\ num_frames >= 1
    /\ \E i \in SelectedSceneNumbers :
          \E j \in (1..ParsedSceneCount) \ SelectedSceneNumbers :
             ScoredScenes[j].score = ScoredScenes[i].score

(***************************************************************************)
(* Claims about CharacterConsistencyManager (SpecManager).                 *)
(***************************************************************************)
\* C10: store_character returns the name lower-cased with each space turned
\* into an underscore; on return the in-memory map holds under that id a
\* record with the given name, description and metadata (an empty dict when
\* none is given) and frame_count 0, and the JSON file holds exactly the
\* records of the in-memory map.
C10_StoreCharacterUpsertsAndSaves ==
    manager_call.op = "store_character" =>
        LET id == manager_call.value
            name == manager_call.character_name
        IN /\ Len(id) = Len(name)
           /\ \A i \in 1..Len(name) :
                 id[i] = IF name[i] = " " THEN "_" ELSE LowerChar(name[i])
           /\ id \in DOMAIN character_embeddings
           /\ character_embeddings[id].name = name
           /\ character_embeddings[id].visual_description =
                 manager_call.visual_description
           /\ character_embeddings[id].metadata =
                 (IF manager_call.metadata.some THEN manager_call.metadata.value
                  ELSE EmptyDict)
           /\ character_embeddings[id].frame_count = 0
           /\ storage_file.state = "written"
           /\ DOMAIN storage_file.data = DOMAIN character_embeddings
           /\ \A c \in DOMAIN character_embeddings :
                 /\ DOMAIN storage_file.data[c] = DOMAIN character_embeddings[c]
                 /\ \A f \in DOMAIN character_embeddings[c] \ {"last_updated"} :
                       storage_file.data[c][f] = character_embeddings[c][f]
                 /\ storage_file.data[c].last_updated = "null"

\* A store under a name with a capital and a space returned, next to the
\* record of another character that has been fetched for a frame.
C10_Witness ==
    /\ manager_call.op = "store_character"
    /\ manager_call.character_name = <<"A", "l", " ", "M">>
    /\ manager_call.value = <<"a", "l", "_", "m">>
    /\ <<"b", "o">> \in DOMAIN character_embeddings
    /\ character_embeddings[<<"b", "o">>].frame_count = 1

(***************************************************************************)
(* Claims about the consistency manager's queries (SpecManager,            *)
(* SpecConsistency).                                                       *)
(***************************************************************************)
\* C11: get_character_description(name, context) raises its not-found error
\* and changes nothing when the slug of the name is not stored; otherwise it
\* returns the stored visual_description as it is, whatever the context, and
\* adds exactly 1 to that record's frame_count, every other field, every
\* other record and the file staying as they were.
C11_GetDescriptionCountsOneUse ==
    [][LET name == manager_call'.character_name
           id == [i \in 1..Len(name) |->
                    IF name[i] = " " THEN "_" ELSE LowerChar(name[i])]
       IN /\ manager_call'.op = "get_character_description raised" =>
                /\ id \notin DOMAIN character_embeddings
                /\ UNCHANGED <<character_embeddings, storage_file>>
          /\ manager_call'.op = "get_character_description" =>
                /\ id \in DOMAIN character_embeddings
                /\ manager_call'.value = character_embeddings[id].visual_description
                /\ DOMAIN character_embeddings' = DOMAIN character_embeddings
                /\ character_embeddings'[id].frame_count =
                      character_embeddings[id].frame_count + 1
                /\ \A f \in DOMAIN character_embeddings[id] \ {"frame_count"} :
                      character_embeddings'[id][f] = character_embeddings[id][f]
                /\ \A c \in DOMAIN character_embeddings \ {id} :
                      character_embeddings'[c] = character_embeddings[c]
                /\ UNCHANGED storage_file]_vars

\* A description fetched for one of two stored characters: its count is 1,
\* the other's still 0.
C11_Witness ==
    /\ manager_call.op = "get_character_description"
    /\ manager_call.character_name = <<"A", "l", " ", "M">>
    /\ DOMAIN character_embeddings = {<<"a", "l", "_", "m">>, <<"b", "o">>}
    /\ character_embeddings[<<"a", "l", "_", "m">>].frame_count = 1
    /\ character_embeddings[<<"b", "o">>].frame_count = 0

\* C12: validate_consistency(name, new_description, threshold) returns
\* (False, 0.0) without asking for an embedding when the slug of the name is
\* not stored; otherwise it returns (similarity >= threshold, similarity),
\* the threshold being 0.85 when none is given and the similarity that of the
\* stored embedding with the new one; the records and the file are left as
\* they were.
C12_ConsistentIffSimilarityReachesThreshold ==
    [][manager_call'.op \in {"validate_consistency", "validate_consistency raised"} =>
        LET name == manager_call'.character_name
            id == [i \in 1..Len(name) |->
                     IF name[i] = " " THEN "_" ELSE LowerChar(name[i])]
        IN /\ UNCHANGED <<character_embeddings, storage_file>>
           /\ id \notin DOMAIN character_embeddings =>
                 /\ manager_call'.op = "validate_consistency"
                 /\ manager_call'.value = <<FALSE, 0>>
                 /\ ~manager_call'.embedding_called
           /\ (id \in DOMAIN character_embeddings
                 /\ manager_call'.op = "validate_consistency") =>
                 LET similarity == manager_call'.value[2]
                     threshold == IF manager_call'.threshold = NoArg THEN 850
                                  ELSE manager_call'.threshold.value
                 IN /\ manager_call'.embedding_called
                    /\ manager_call'.value[1] = (similarity >= threshold)
                    /\ similarity =
                          CosineSimilarity(character_embeddings[id].embedding,
                                           manager_call'.new_embedding)
           /\ manager_call'.op = "validate_consistency raised" =>
                 id \in DOMAIN character_embeddings]_vars

\* A description of similarity 0.707 to the stored one was found consistent
\* under a threshold of 0.5.
C12_Witness ==
    /\ manager_call.op = "validate_consistency"
    /\ manager_call.embedding_called
    /\ manager_call.threshold = Some(500)
    /\ manager_call.value = <<TRUE, 707>>

(***************************************************************************)
(* Claims about the agent and the storyboard handler (Spec).               *)
(***************************************************************************)
StoryboardOps == {"generate_storyboard", "app.generate_storyboard"}

\* Moment detection ran in the last call.
MomentDetectionRan ==
    \/ agent_call.op = "generate_storyboard" /\ ~agent_call.raised
    \/ agent_call.op = "app.generate_storyboard" /\ agent_call.agent_called

\* C1, as the specification states it: moment detection runs only after a
\* screenplay was returned in the session, and never on an empty text.
C1_StoryboardOnlyAfterScreenplay ==
    MomentDetectionRan =>
        screenplay_ready /\ Strip(agent_call.screenplay_text) # <<>>

\* C1, amended: the storyboard handler of app.py answers a text that is empty
\* or white space with a warning and no frame, without calling the agent,
\* and hands every other text to the agent; FrameFlowAgent.generate_storyboard
\* runs moment detection on whatever text it is given, whether a screenplay
\* was generated in the session or not.
C1_HandlerRejectsBlankText ==
    /\ agent_call.op = "app.generate_storyboard" =>
          IF \A i \in 1..Len(agent_call.screenplay_text) :
                agent_call.screenplay_text[i] = " "
          THEN /\ agent_call.status = "warning"
               /\ agent_call.frame_images = <<>>
               /\ ~agent_call.agent_called
          ELSE /\ agent_call.status = "success"
               /\ agent_call.agent_called
    /\ agent_call.op = "generate_storyboard" => MomentDetectionRan

\* The handler turned down a text of white space on an agent that nothing
\* had initialised.
C1_Witness ==
    /\ agent_call.op = "app.generate_storyboard"
    /\ agent_call.screenplay_text = <<" ">>
    /\ agent_call.status = "warning"
    /\ ~agent.clients_initialized

\* C2: when a call to the text backend raises during Analyzing,
\* CharacterCreation or SceneWriting, generate_screenplay still returns a
\* ScreenplayOutput.
C2_BackendFailureFallsBack ==
    (agent_call.op = "generate_screenplay" /\ agent.llm_client # None) =>
        ~agent_call.raised

\* C3: generate_storyboard returns exactly num_frames frames in the requested
\* visual style, for every screenplay text.
C3_ExactlyNumFramesForEveryText ==
    agent_call.op = "generate_storyboard" =>
        /\ ~agent_call.raised
        /\ Len(agent_call.value.frames) = agent_call.num_frames
        /\ agent_call.value.visual_style = agent_call.visual_style

\* C6: with no text backend, generate_screenplay returns a screenplay with at
\* least one character and at least one scene, for every act structure.
C6_FallbackHasCharacterAndScene ==
    (agent_call.op = "generate_screenplay" /\ "SAMBANOVA_API_KEY" \notin env_keys) =>
        /\ ~agent_call.raised
        /\ Len(agent_call.value.characters) >= 1
        /\ Len(agent_call.value.scenes) >= 1

\* C7: every ScreenplayOutput that generate_screenplay returns has a
\* page_count of twice the number of its scenes.
C7_PageCountIsTwiceScenes ==
    (agent_call.op = "generate_screenplay" /\ ~agent_call.raised) =>
        agent_call.value.page_count = 2 * Len(agent_call.value.scenes)

\* A screenplay of six scenes and twelve pages was returned.
C7_Witness ==
    /\ agent_call.op = "generate_screenplay"
    /\ ~agent_call.raised
    /\ Len(agent_call.value.scenes) = 6
    /\ agent_call.value.page_count = 12

\* The last call got past _initialize_clients.
InitializedBy(op) ==
    /\ agent_call.op = op
    /\ agent.clients_initialized

\* C8: whatever API keys are missing, _initialize_clients does not raise,
\* leaves the client of each missing backend None (and the consistency
\* manager None when the embedding key is missing), creates the five modules,
\* and the pipelines run: without the text key generate_screenplay returns,
\* without the image key generate_storyboard returns frames without images.
C8_MissingKeysMeanFallback ==
    /\ agent_call.op = "_initialize_clients" =>
          ~agent_call.raised /\ agent.clients_initialized
    /\ agent.clients_initialized =>
          /\ (agent.llm_client = None) = ("SAMBANOVA_API_KEY" \notin env_keys)
          /\ (agent.image_client = None) = ("HYPERBOLIC_API_KEY" \notin env_keys)
          /\ (agent.embedding_client = None) = ("NEBIUS_API_KEY" \notin env_keys)
          /\ (agent.consistency_manager = None) = ("NEBIUS_API_KEY" \notin env_keys)
          /\ agent.story_analyzer # None
          /\ agent.character_creator # None
          /\ agent.scene_writer # None
          /\ agent.moment_detector # None
          /\ agent.prompt_generator # None
    /\ (agent_call.op = "generate_screenplay" /\ "SAMBANOVA_API_KEY" \notin env_keys) =>
          ~agent_call.raised
    /\ (agent_call.op = "generate_storyboard" /\ "HYPERBOLIC_API_KEY" \notin env_keys) =>
          /\ ~agent_call.raised
          /\ \A i \in 1..Len(agent_call.value.frames) :
                agent_call.value.frames[i].image_path = NoArg

\* _initialize_clients returned in an environment without any key.
C8_Witness ==
    /\ InitializedBy("_initialize_clients")
    /\ env_keys = {}
    /\ agent.llm_client = None

(***************************************************************************)
(* Claims about the characters of a session (Spec).                        *)
(***************************************************************************)
\* C13: after generate_screenplay (whose CharacterCreation stage is
\* _create_characters), every returned character's name is a key of
\* character_store and the profile stored under that name equals that
\* returned character.
C13_EveryCharacterIsStoredUnderItsName ==
    (agent_call.op = "generate_screenplay" /\ ~agent_call.raised) =>
        \A i \in 1..Len(agent_call.value.characters) :
           LET char == agent_call.value.characters[i]
           IN /\ char.name \in DOMAIN agent.character_store
              /\ agent.character_store[char.name] = char


(***************************************************************************)
(* Claims about the batch calls (SpecBatch).                               *)
(***************************************************************************)
\* C14: batch_generate and batch_create_embeddings return one result for
\* each input, and result i is the result of the call made for input i,
\* whatever order the concurrent calls end in.
C14_BatchResultsInInputOrder ==
    batch.state = "returned" =>
        /\ batch.value.some
        /\ Len(batch.value.value) = Len(batch.inputs)
        /\ \A i \in 1..Len(batch.inputs) :
              /\ batch.value.value[i].answer_to = batch.inputs[i]
              /\ batch.value.value[i] = batch.tasks[i].outcome.value

\* Two calls for different inputs, the second ended first, and the batch
\* returned.
C14_Witness ==
    /\ batch.state = "returned"
    /\ batch.inputs = <<"a", "b">>
    /\ batch.finished = <<2, 1>>
    /\ batch.tasks[1].outcome.value.variant # batch.tasks[2].outcome.value.variant

\* C15: when any one call of batch_generate or batch_create_embeddings
\* fails, the whole batch call fails with an error and returns no list, not
\* even of the results that did arrive.
C15_OneFailureFailsTheBatch ==
    (batch.state # "idle"
       /\ \E i \in 1..Len(batch.tasks) :
             batch.tasks[i].done /\ batch.tasks[i].outcome.raised) =>
        /\ batch.state = "raised"
        /\ batch.value = NoArg

\* One call returned its result, the other failed after it.
C15_Witness ==
    /\ batch.state = "raised"
    /\ Len(batch.tasks) = 2
    /\ batch.finished = <<1, 2>>
    /\ ~batch.tasks[1].outcome.raised
    /\ batch.tasks[2].outcome.raised

(***************************************************************************)
(* Claims about the methods that keep no state (SpecFunctions).            *)
(***************************************************************************)
\* C16: analyze returns suggested_acts with exactly 3 entries for the act
\* structure Three-Act, 5 for Five-Act and 12 for Hero's Journey, with and
\* without a text backend; any other act structure gets the 3 entries of
\* Three-Act, so suggested_acts is never empty.
C16_SuggestedActsMatchTheStructure ==
    (fn_call.op = "analyze" /\ ~fn_call.result.raised) =>
        LET suggested_acts == fn_call.result.value.suggested_acts
            act_structure == fn_call.story_input.act_structure
        IN /\ act_structure = "Three-Act" => Len(suggested_acts) = 3
           /\ act_structure = "Five-Act" => Len(suggested_acts) = 5
           /\ act_structure = "Hero's Journey" => Len(suggested_acts) = 12
           /\ act_structure \notin {"Three-Act", "Five-Act", "Hero's Journey"} =>
                 /\ Len(suggested_acts) = 3
                 /\ suggested_acts = ThreeActStructure
           /\ suggested_acts # <<>>

\* An analysis that came from the backend, for an act structure the
\* analyzer has no entry for.
C16_Witness ==
    /\ fn_call.op = "analyze"
    /\ fn_call.llm_client # None
    /\ ~fn_call.result.raised
    /\ fn_call.story_input.act_structure = "Four-Act"
    /\ Len(fn_call.result.value.suggested_acts) = 3

\* C17: for every input "<SETTING>. <NAME> - <TIME>", in any letter case,
\* with SETTING one of INT, EXT, INT/EXT, TIME one of DAY, NIGHT, DAWN, DUSK,
\* CONTINUOUS and NAME a location name without a hyphen, _parse_location
\* gives setting = SETTING, location = NAME and time = TIME, upper-cased.
C17_ParseLocationOfWellFormedHeading ==
    fn_call.op = "_parse_location" =>
        /\ fn_call.result.value.setting = fn_call.heading.setting
        /\ fn_call.result.value.location = fn_call.heading.name
        /\ fn_call.result.value.time = fn_call.heading.time

\* The first position at which word stands in text, 0 when it does not.
FirstOccurrence(text, word) ==
    LET at == {q \in 1..Len(text) : HasAt(text, q, word)}
    IN IF at = {} THEN 0 ELSE CHOOSE q \in at : \A r \in at : q <= r

\* C18: to_formatted_text contains, for every scene, the heading
\* "{scene_number}. {SETTING}. {LOCATION} - {TIME}" in capitals, and the
\* headings stand in the text in ascending order of scene_number.
C18_HeadingsPresentInAscendingOrder ==
    fn_call.op = "to_formatted_text" =>
        LET scenes == fn_call.screenplay.scenes
            text == fn_call.result.value
            Heading(i) == Str(scenes[i].scene_number) \o <<".", " ">>
                             \o Upper(scenes[i].location.setting) \o <<".", " ">>
                             \o Upper(scenes[i].location.location)
                             \o <<" ", "-", " ">> \o Upper(scenes[i].location.time)
        IN /\ \A i \in 1..Len(scenes) : FirstOccurrence(text, Heading(i)) > 0
           /\ \A i, j \in 1..Len(scenes) :
                 scenes[i].scene_number < scenes[j].scene_number =>
                    FirstOccurrence(text, Heading(i)) < FirstOccurrence(text, Heading(j))

\* C19: cosine_similarity returns 1.0 for a vector of non-zero norm compared
\* with itself, 0.0 for two orthogonal vectors, and 0.0 whenever one of the
\* vectors has norm 0, without dividing by zero (the call returns).
C19_CosineOfSelfOrthogonalAndZero ==
    fn_call.op = "cosine_similarity" =>
        LET v == fn_call.embedding1
            w == fn_call.embedding2
            zero(x) == \A i \in 1..Len(x) : x[i] = 0
        IN /\ ~fn_call.result.raised
           /\ (zero(v) \/ zero(w)) => fn_call.result.value = 0
           /\ (v = w /\ ~zero(v)) => fn_call.result.value = 1000
           /\ v[1] * w[1] + v[2] * w[2] = 0 => fn_call.result.value = 0

\* A vector off the axes compared with itself.
C19_Witness ==
    /\ fn_call.op = "cosine_similarity"
    /\ fn_call.embedding1 = <<1, 2>>
    /\ fn_call.embedding2 = <<1, 2>>
    /\ fn_call.result.value = 1000

(***************************************************************************)
(* Claims about the story prompt (SpecInput).                              *)
(***************************************************************************)
\* C9: a prompt that is empty, white space, or shorter than 10 characters
\* once its surrounding white space is removed is turned down before the
\* Analyzing stage; no stage runs for it.
C9_ShortPromptRejectedBeforeAnalyzing ==
    (agent_call.op = "app.generate_screenplay"
       /\ Len(Strip(agent_call.story_prompt)) < MinLength) =>
        /\ agent_call.status \in {"warning", "error"}
        /\ agent_call.stages = <<>>


\* The key moment of each frame of a storyboard call.
MomentsOfCall(a, call) ==
    IdentifyKeyMomentsOf(a, call.screenplay_text, call.num_frames)

\* generate_storyboard has just returned the frames of the formatted text of
\* the screenplay that generate_screenplay returned before it.
StoryboardOfSession ==
    /\ agent_call.op = "generate_screenplay"
    /\ ~agent_call.raised
    /\ agent_call'.op = "generate_storyboard"
    /\ ~agent_call'.raised
    /\ agent_call'.screenplay_text = FormattedTextLines(agent_call.value)

\* C20: in a session where generate_screenplay created the characters, every
\* frame that generate_storyboard builds from the formatted text of that
\* screenplay and whose moment names one of those characters has a visual
\* prompt that holds the stored visual description of that character.
C20_FramePromptHoldsStoredDescription ==
    [][StoryboardOfSession =>
         LET characters == agent_call.value.characters
             storyboard_frames == agent_call'.value.frames
             key_moments == MomentsOfCall(agent', agent_call')
         IN \A i \in 1..Len(storyboard_frames) :
               \A k \in 1..Len(key_moments[i].characters), c \in 1..Len(characters) :
                  Upper(characters[c].name) = CueText(key_moments[i].characters[k])
                  => \E d \in 1..Len(storyboard_frames[i].visual_prompt.characters) :
                        storyboard_frames[i].visual_prompt.characters[d]
                           = [text |-> characters[c].visual_description]]_vars


\* What a record of the file says of its character.
StoredCharacter(data) ==
    [name |-> data.name, visual_description |-> data.visual_description,
     embedding |-> data.embedding, metadata |-> data.metadata]

\* C21: a store_character call keeps every record that the file already holds
\* under a different id, whichever manager wrote it: the id is still in the
\* file and its record describes the same character.
C21_StoreKeepsTheRecordsOfTheFile ==
    [][(manager_call'.op = "store_character" /\ storage_file.state = "written")
         => \A id \in DOMAIN storage_file.data \ {manager_call'.value} :
               /\ id \in DOMAIN storage_file'.data
               /\ StoredCharacter(storage_file'.data[id])
                     = StoredCharacter(storage_file.data[id])]_vars


\* C22: _parse_scenes of the formatted text of a screenplay yields one parsed
\* scene for each Scene, in the same order, and each parsed scene_number is
\* the scene_number of the Scene it came from.
C22_ParsedScenesAreTheScenes ==
    fn_call.op = "_parse_scenes" =>
        LET scenes == fn_call.screenplay.scenes
            parsed == fn_call.result.value
        IN /\ Len(parsed) = Len(scenes)
           /\ \A i \in 1..Len(scenes) :
                 /\ parsed[i].heading = Upper(SceneHeading(scenes[i]))
                 /\ parsed[i].scene_number = scenes[i].scene_number


RECURSIVE LineRoles(_, _)
\* What each line of a scene text is: "skip" (empty, or a scene heading),
\* "cue", "parenthetical" (a parenthesised line that follows a cue with
\* nothing but skipped lines between), "dialogue" (the line after a cue and
\* its parenthetical), or "action".  after is "cue" after a cue,
\* "parenthetical" after its parenthetical, "none" otherwise.
LineRoles(lines, after) ==
    IF lines = <<>> THEN <<>>
    ELSE LET stripped == Strip(Head(lines))
             role == IF stripped = <<>> \/ IsSceneHeading(stripped) THEN "skip"
                     ELSE IF IsCharacterCue(stripped) THEN "cue"
                     ELSE IF IsParenthesised(stripped) /\ after = "cue"
                     THEN "parenthetical"
                     ELSE IF after # "none" THEN "dialogue"
                     ELSE "action"
         IN <<role>> \o LineRoles(Tail(lines),
                           CASE role = "skip" -> after
                             [] role \in {"cue", "parenthetical"} -> role
                             [] OTHER -> "none")

\* C23: every non-empty line of the scene text that is not a scene heading,
\* a cue, a parenthetical right after a cue or the dialogue line after a cue
\* is in the action text of the parsed scene.
C23_NoActionLineIsDropped ==
    fn_call.op = "_parse_scene_text" =>
        LET roles == LineRoles(fn_call.lines, "none")
        IN \A i \in 1..Len(fn_call.lines) :
              roles[i] = "action"
              => FirstOccurrence(fn_call.result.value.action,
                                 Strip(fn_call.lines[i])) # 0


\* setting = "INT", location = "LOCATION", time = "DAY"
DefaultLocation ==
    [setting |-> <<"I", "N", "T">>,
     location |-> <<"L", "O", "C", "A", "T", "I", "O", "N">>,
     time |-> <<"D", "A", "Y">>]

\* C24: for every string _parse_location returns, without raising, a
\* location whose setting is one of INT, EXT, INT/EXT and whose time is one
\* of DAY, NIGHT, DAWN, DUSK, CONTINUOUS, and for a string the heading
\* pattern does not match it returns INT, LOCATION, DAY.
C24_ParseLocationGivesEnumeratedValuesOrDefault ==
    fn_call.op = "_parse_location of a string" =>
        /\ ~fn_call.result.raised
        /\ fn_call.result.value.setting \in HeadingSettings
        /\ fn_call.result.value.time \in HeadingTimes
        /\ ~LocationMatch(fn_call.location_str).some
              => fn_call.result.value = DefaultLocation


C26_WrapIsGreedyOnEveryLine ==
    fn_call.op = "_wrap_dialogue" =>
        LET lines == fn_call.result.value
        IN \A i \in 1..(Len(lines) - 1) :
              Len(lines[i]) + 1 + Len(SplitWords(lines[i + 1], 1)[1])
                 > fn_call.max_width

\* C27: _wrap_dialogue never splits or loses a word: the returned lines,
\* joined by single spaces, hold the words of the text in their order, and
\* every line is at most max_width characters long unless it is one word
\* longer than max_width.
C27_WrapKeepsTheWords ==
    fn_call.op = "_wrap_dialogue" =>
        LET lines == fn_call.result.value
        IN /\ SplitWords(Join(<<" ">>, lines), 1) = SplitWords(fn_call.text, 1)
           /\ \A i \in 1..Len(lines) :
                 \/ Len(lines[i]) <= fn_call.max_width
                 \/ Len(SplitWords(lines[i], 1)) = 1

\* "ab ab" at width 4: two lines of one word each.
C27_Witness ==
    /\ fn_call.op = "_wrap_dialogue"
    /\ fn_call.text = <<"a", "b", " ", "a", "b">>
    /\ fn_call.max_width = 4
    /\ fn_call.result.value = <<<<"a", "b">>, <<"a", "b">>>>


\* C28: with no backend, create_characters(analysis, genre, n) with n >= 1
\* returns n characters without raising, for every analysis, also one whose
\* protagonist is empty or has no letter in its first word (the protagonist
\* is then Alex Morgan): the first is the only protagonist, the second is an
\* antagonist exactly when the analysis has an antagonist and n > 1, and the
\* others are supporting.
C28_BasicCharactersForEveryAnalysis ==
    fn_call.op = "create_characters" =>
        /\ ~fn_call.result.raised
        /\ LET characters == fn_call.result.value
               protagonist == fn_call.analysis.protagonist
           IN /\ Len(characters) = fn_call.num_characters
              /\ characters[1].role = "protagonist"
              /\ (Strip(protagonist) = <<>>
                    \/ \A i \in 1..Len(FirstWord(protagonist)) :
                          ~IsAlpha(FirstWord(protagonist)[i]))
                   => characters[1].name = Title(AlexMorgan)
              /\ \A k \in 2..Len(characters) :
                    characters[k].role =
                       IF k = 2 /\ fn_call.analysis.antagonist # ""
                       THEN "antagonist" ELSE "supporting"


\* The score of a scene without its positional bonus, in hundredths: the
\* keyword "fight" weighs 3.0 and nothing else of these scenes counts.
ScoreBesidesPosition(k) == IF k = fn_call.keyword_scene THEN 300 ELSE 0

\* C29: each scene gets at most one positional bonus, by priority: 2.0 for
\* scene 1, else 2.5 for the last scene, else 1.0 for a number of at most a
\* quarter of the scene count, else 1.5 for a number of at least three
\* quarters of it; a single scene gets 2.0 only.
C29_OnePositionalBonusByPriority ==
    fn_call.op = "_score_scenes" =>
        LET scored == fn_call.result.value
            total == fn_call.total_scenes
        IN /\ Len(scored) = total
           /\ \A k \in 1..total :
                 scored[k].score - ScoreBesidesPosition(k) =
                    CASE k = 1 -> 200
                      [] k # 1 /\ k = total -> 250
                      [] k # 1 /\ k # total /\ 4 * k <= total -> 100
                      [] k # 1 /\ k # total /\ 4 * k > total /\ 4 * k >= 3 * total -> 150
                      [] OTHER -> 0

\* Eight scenes: scene 2 is in the first quarter, scene 6 in the last, scene
\* 4 in neither.
C29_Witness ==
    /\ fn_call.op = "_score_scenes"
    /\ fn_call.total_scenes = 8
    /\ fn_call.keyword_scene = 0
    /\ fn_call.result.value[1].score = 200
    /\ fn_call.result.value[2].score = 100
    /\ fn_call.result.value[4].score = 0
    /\ fn_call.result.value[6].score = 150
    /\ fn_call.result.value[8].score = 250


\* ---------------------------------------------------------------------------
\* Frames of a storyboard whose image fails
\* ---------------------------------------------------------------------------

\* A description, camera angle or visual prompt of a frame is filled in.
IsFilledDescription(description) ==
    \/ "lines" \in DOMAIN description /\ description.lines # <<>>
    \/ "placeholder" \in DOMAIN description
    \/ "key_moment" \in DOMAIN description

ShotNames == {"Wide Shot", "Close-Up", "Medium Shot", "Over the Shoulder"}

====
